---- MODULE Spec2Model ----
(***************************************************************************)
(* Table Handler for NVDA: a model of                                      *)
(*   - TableHandlerDispatcher (the handler chain),                         *)
(*   - TableConfig (the persisted, layered configuration store) and the    *)
(*     synchronized decorator that guards it,                              *)
(*   - RowRegion.getColumns / RowRegion.update (braille window packing),   *)
(*   - NestedChainMap (the layered map behind every TableConfig).          *)
(* Each component has its own specification over the shared variables; a   *)
(* specification leaves the variables of the other components untouched.   *)
(***************************************************************************)
EXTENDS Integers, Sequences, FiniteSets, TLC

VARIABLES
    \* ---- TableHandlerDispatcher ----
    handlers,      \* the functions gen() yields, in order: [src, beh]
    genPos,        \* how many functions the generator has yielded
    callStack,     \* indices of the handlers whose call is in progress
    chainPc,       \* "idle", "next", "body", "returning", "raising", "done"
    chainOutcome,  \* "none", "returned", "raised", "exhausted"
    chainResult,   \* index of the handler whose answer is returned, 0 if none
    invoked,       \* sequence of the handler indices invoked so far
    logged,        \* number of log.exception records written by the chain
    \* ---- RowRegion (braille window packing) ----
    displaySize,   \* braille.handler.displaySize
    sepScheme,     \* ColumnSeparatorRegion.scheme
    cellWidths,    \* columnWidthBraille of the row's cells, in column order
    lastCellLen,   \* number of braille cells of the last cell's own content
    selNum,        \* table._currentColumnNumber (the RowRegion's cell)
    columns,       \* what getColumns returned: [win, width, kind, col, position]
    maxWindowNumber, \* RowRegion.maxWindowNumber (NoWindow while None)
    windowNumber,  \* RowRegion.windowNumber (NoWindow while None)
    brailleLen,    \* len(RowRegion.brailleCells) after update
    packPc,        \* "idle", "focused", "updated"
    \* ---- NestedChainMap ----
    layers,        \* NestedChainMap.maps: the layers, leaf first
    prevLayers,    \* the layers before the last assignment
    mapOp,         \* the last operation: [kind, path, value, outcome, result]
    mapPc,         \* "idle", "built", "read", "assigned"
    \* ---- TableConfig ----
    storePc,       \* "down", or "up" once initialize() has run
    loaderDone,    \* _catalogLoadingThread has ended
    lockAttr,      \* TableConfig.__lock__: 0 while unset, else the lock
    cache,         \* TableConfig._cache: key -> instance
    catalogAttr,   \* TableConfig._catalog: 0 for None, else the list
    catLists,      \* the keys in each catalog list
    objData,       \* the leaf map of each instance
    file,          \* the file at FILE_PATH
    tmp,           \* the file at FILE_PATH.tmp
    stack,         \* each thread's calls of synchronized methods
    thrPc,         \* each thread: "idle", "get", "got", "save", "remove", "done"
    got,           \* the instance get returned to each thread
    outcome,       \* how each thread's last operation ended
    writeFailed,   \* the threads whose save met a write failure
    writeLogged,   \* the threads whose save logged one
    \* ---- TableManager: header and mark commands ----
    mgrPc,         \* "idle", or "table" once a table is entered
    axis,          \* the numbers the commands work on: "row" or "column"
    tcfg,          \* the leaf layer of the table's config
    tparent,       \* the layer under it
    curNum,        \* _currentRowNumber / _currentColumnNumber, 0 for none
    lastScript,    \* the last script executed and its untimed repeat count
    report,        \* what the last command said, and the exception it raised
    unsaved,       \* the leaf has changes the data file does not have
    presses,       \* the successive presses under observation
    \* ---- TableManager: moves and the row filter ----
    navPc,         \* "idle", "table" once a table has the focus, then "moved"
    manager,       \* the class of the table manager
    cells,         \* the text of the cells, by row and column
    currentRowNumber,    \* TableManager._currentRowNumber
    currentColumnNumber, \* TableManager._currentColumnNumber
    filterText,    \* TableManager.filterText ("" for None)
    filterCaseSensitive, \* TableManager.filterCaseSensitive
    lastMove,      \* the last move, where it started and what it gave
    \* ---- TableManager: a step to the next or previous row or column ----
    stepPc, \* "idle", "ready" once the line is there, "stepped"
    line, \* the rows of the table, or the cells of the current row: [lookup, num, span]
    stepFrom, \* the current row or cell (fromObj)
    stepNumber, \* the current number on the axis of the step
    stepResult, \* the last step: its direction, what it probed and what it gave
    \* ---- TextInfoDrivenFakeRow: the cells of a row and their cache ----
    rowPc, \* "idle", then "row" once the row is created
    rowSrc, \* what the document holds for the row: the cells, each [num, span]
    rowCache, \* TextInfoDrivenFakeRow._cache: [old, cells], each cell [key, span, obj]
    cellResult, \* the last _getCell: the column asked, the cell returned (0: None)
    \* ---- FakeTableManager: the rows of a table and their cache ----
    rowsPc, \* "idle", then "table" once the table is created
    tableClass, \* "FakeTableManager" (static data) or "DocumentTableManager"
    rowCount, \* FakeTableManager.rowCount
    rowCells, \* the rows that have a cell at the current column
    columnSet, \* _currentColumnNumber is not None
    rowsCached, \* FakeTableManager._rows: the numbers that have a row in the cache
    rowResult, \* the last _getRow: the number asked, whether a row was cached, the row returned
    \* ---- TableManager._firstDataCell: the first data cell of a table ----
    firstPc, \* "idle", "table" once a table is focused, "got" once _firstDataCell was read
    tableShape, \* the table: [rowCount, columnCount, headers (the header cells of the document itself)]
    headerCfg, \* the table configuration: [columnHeaderRowNumber, rowHeaderColumnNumber, firstDataRowNumber, firstDataColumnNumber]
    firstDataCell, \* the cell last returned by _firstDataCell: <<rowNumber, columnNumber>>
    \* ---- TableManager: the current coordinates under the navigation commands ----
    posPc, \* "idle", then "table" once a table manager is created
    posTable, \* the table: [class, rowCount, cells (the coordinates at which the document has a cell)]
    tablePos, \* [rowNumber |-> _currentRowNumber, columnNumber |-> _currentColumnNumber], PyNone for None
    posScript, \* the navigation command run last
    \* ---- RowRegion and its buffer under the pan commands ----
    panPc, \* "idle", then "shown" once the region of a cell was updated
    panRow, \* the row and its region: [widths, sel (the cell of the region), scheme, lastLen, resizing (the region's object is a ResizingCell)]
    panRegion, \* [windowNumber, maxWindowNumber, windowStartPos (of the buffer), cellsLen (of the buffer)]
    panLast, \* the command run last: [cmd, window, start (both before the command), scrollable (the buffer could scroll)]
    \* ---- ResizingCell: the braille width of a column in resize mode ----
    rzPc, \* "idle", "cell" (a cell has the focus), "resizing" (a ResizingCell has it)
    rzCfg, \* [displaySize, style (brailleColumnSeparatorStyle), routing (brailleSetColumnWidthWithRouting)]
    rzStored, \* columnWidthsByDisplaySize[displaySize][columnNumber] of the column, PyNone when there is none
    rzLast, \* the command run last: [cmd, d (the distance routed at), visible (the column has a region in the window), before, current (the stored width and the width of the column before the command)]
    \* ---- TableConfig: what save writes and load reads back ----
    psPc, \* "idle", "started", "open" once a config is obtained ("failed" when get raised), "saved" after a save, "loaded" after a load
    psCell, \* the cell the commands work on: [row, col]
    psLeaf, \* TableConfig.map.maps[0]: the leaf layer, by entry name
    psFile, \* the data file: [kind, config (the record of the key, as JSON, when the kind is "complete")]
    psSaved, \* the leaf as it was when save was last called, and whether the dump raised
    psLoaded, \* what the last load gave: [status, config]
    psSaves, \* the number of saves so far
    psCatalog, \* TableConfig._catalog: [set (it is not None), keys]
    \* ---- synchronized.method: the self-test of lib/synchronized.py ----
    syThread, \* each thread of the test: [pc, calls (completed), lock (the lock it fetched), newValue]
    syCounter, \* o.counter
    syLockAttrs, \* the lock attributes of o, by name: NoSyLock while unset
    \* ---- getTableManager, getTableConfig and getTableConfigKey: the requests handlers start from inside a request ----
    rsPc, \* "idle", "running" while a request is resolved, "done"
    rsEnv, \* the document: [webModule, ready, overridden, result, tableID, headers, wmDefaults, ruleDefaults]
    rsStack, \* the handler calls in progress: [func, h (the handler), pc, kw (the keyword arguments), first (the call starts a request)]
    rsRet, \* what the call that ended last returned
    rsMaps, \* TableConfig.map.maps of the cached config of each key, <<>> while there is none
    rsRequests, \* the number of requests made from outside so far
    rsSeen, \* for each key: the maps of its config after the web module resolved it first, and how often it did
    \* ---- TableHandlerBmdti: browse mode, focus mode and table mode of a document ----
    mdPassThrough, \* ti._passThrough: "False", "True", "None" or one of the three PassThrough objects
    mdCurrentTable, \* ti._currentTable: the table of the table manager, 0 for None
    mdCaret, \* the table ti.selection is in, 0 outside any table
    mdQueue, \* the calls queued with queueCall, oldest first
    mdLast \* the handler that ran last: [op, before (the state it found), table (the current table it found), raised]

chainVars == <<handlers, genPos, callStack, chainPc, chainOutcome, chainResult,
               invoked, logged>>

packVars == <<displaySize, sepScheme, cellWidths, lastCellLen, selNum, columns,
              maxWindowNumber, windowNumber, brailleLen, packPc>>

mapVars == <<layers, prevLayers, mapOp, mapPc>>

storeVars == <<storePc, loaderDone, lockAttr, cache, catalogAttr, catLists, objData,
               file, tmp, stack, thrPc, got, outcome, writeFailed, writeLogged>>

managerVars == <<mgrPc, axis, tcfg, tparent, curNum, lastScript, report, unsaved, presses>>

navVars == <<navPc, manager, cells, currentRowNumber, currentColumnNumber, filterText,
             filterCaseSensitive, lastMove>>

stepVars == <<stepPc, line, stepFrom, stepNumber, stepResult>>

rowVars == <<rowPc, rowSrc, rowCache, cellResult>>

rowsVars == <<rowsPc, tableClass, rowCount, rowCells, columnSet, rowsCached, rowResult>>

firstVars == <<firstPc, tableShape, headerCfg, firstDataCell>>

posVars == <<posPc, posTable, tablePos, posScript>>

panVars == <<panPc, panRow, panRegion, panLast>>

resizeVars == <<rzPc, rzCfg, rzStored, rzLast>>

persistVars == <<psPc, psCell, psLeaf, psFile, psSaved, psLoaded, psSaves, psCatalog>>

syncVars == <<syThread, syCounter, syLockAttrs>>

resolveVars == <<rsPc, rsEnv, rsStack, rsRet, rsMaps, rsRequests, rsSeen>>

modeVars == <<mdPassThrough, mdCurrentTable, mdCaret, mdQueue, mdLast>>

vars == <<chainVars, packVars, mapVars, storeVars, managerVars, navVars, stepVars, rowVars, rowsVars, firstVars, posVars, panVars, resizeVars, persistVars, syncVars, resolveVars, modeVars>>

\* What the actions of one component leave alone.
NotChain == <<packVars, mapVars, storeVars, managerVars, navVars, stepVars, rowVars, rowsVars, firstVars, posVars, panVars, resizeVars, persistVars, syncVars, resolveVars, modeVars>>

NotPack == <<chainVars, mapVars, storeVars, managerVars, navVars, stepVars, rowVars, rowsVars, firstVars, posVars, panVars, resizeVars, persistVars, syncVars, resolveVars, modeVars>>

NotMap == <<chainVars, packVars, storeVars, managerVars, navVars, stepVars, rowVars, rowsVars, firstVars, posVars, panVars, resizeVars, persistVars, syncVars, resolveVars, modeVars>>

NotStore == <<chainVars, packVars, mapVars, managerVars, navVars, stepVars, rowVars, rowsVars, firstVars, posVars, panVars, resizeVars, persistVars, syncVars, resolveVars, modeVars>>

NotManager == <<chainVars, packVars, mapVars, storeVars, navVars, stepVars, rowVars, rowsVars, firstVars, posVars, panVars, resizeVars, persistVars, syncVars, resolveVars, modeVars>>

NotNav == <<chainVars, packVars, mapVars, storeVars, managerVars, stepVars, rowVars, rowsVars, firstVars, posVars, panVars, resizeVars, persistVars, syncVars, resolveVars, modeVars>>

NotStep == <<chainVars, packVars, mapVars, storeVars, managerVars, navVars, rowVars, rowsVars, firstVars, posVars, panVars, resizeVars, persistVars, syncVars, resolveVars, modeVars>>

NotRow == <<chainVars, packVars, mapVars, storeVars, managerVars, navVars, stepVars, rowsVars, firstVars, posVars, panVars, resizeVars, persistVars, syncVars, resolveVars, modeVars>>

NotRows == <<chainVars, packVars, mapVars, storeVars, managerVars, navVars, stepVars, rowVars, firstVars, posVars, panVars, resizeVars, persistVars, syncVars, resolveVars, modeVars>>

NotFirst == <<chainVars, packVars, mapVars, storeVars, managerVars, navVars, stepVars, rowVars, rowsVars, posVars, panVars, resizeVars, persistVars, syncVars, resolveVars, modeVars>>

NotPos == <<chainVars, packVars, mapVars, storeVars, managerVars, navVars, stepVars, rowVars, rowsVars, firstVars, panVars, resizeVars, persistVars, syncVars, resolveVars, modeVars>>

NotPan == <<chainVars, packVars, mapVars, storeVars, managerVars, navVars, stepVars, rowVars, rowsVars, firstVars, posVars, resizeVars, persistVars, syncVars, resolveVars, modeVars>>

NotResize == <<chainVars, packVars, mapVars, storeVars, managerVars, navVars, stepVars, rowVars, rowsVars, firstVars, posVars, panVars, persistVars, syncVars, resolveVars, modeVars>>

NotPersist == <<chainVars, packVars, mapVars, storeVars, managerVars, navVars, stepVars, rowVars, rowsVars, firstVars, posVars, panVars, resizeVars, syncVars, resolveVars, modeVars>>

NotSync == <<chainVars, packVars, mapVars, storeVars, managerVars, navVars, stepVars, rowVars, rowsVars, firstVars, posVars, panVars, resizeVars, persistVars, resolveVars, modeVars>>

NotResolve == <<chainVars, packVars, mapVars, storeVars, managerVars, navVars, stepVars, rowVars, rowsVars, firstVars, posVars, panVars, resizeVars, persistVars, syncVars, modeVars>>

NotMode == <<chainVars, packVars, mapVars, storeVars, managerVars, navVars, stepVars, rowVars, rowsVars, firstVars, posVars, panVars, resizeVars, persistVars, syncVars, resolveVars>>

\* ---------------------------------------------------------------------
\* Generic helpers
\* ---------------------------------------------------------------------
Last(s) == s[Len(s)]

Front(s) == SubSeq(s, 1, Len(s) - 1)

Range(s) == {s[i] : i \in 1..Len(s)}

\* =====================================================================
\* TableHandlerDispatcher
\* =====================================================================

\* The sources gen() consults, most specific first; the default handler
\* (a fresh TableHandler) always comes last.
HandlerSources == <<"plugin", "appModule", "webModule", "ti", "obj">>

\* What a handler does when invoked: call nextHandler and return its result,
\* return an answer of its own, or raise.
Behaviors == {"defer", "answer", "throw"}

\* The subsequence of HandlerSources selected by the set S of positions.
RECURSIVE SelectSources(_, _)
SelectSources(S, i) ==
    IF i > Len(HandlerSources) THEN <<>>
    ELSE (IF i \in S THEN <<HandlerSources[i]>> ELSE <<>>) \o SelectSources(S, i + 1)

\* gen(): the functions found on the running plugins, the appModule, the
\* webModule, the tree interceptor and the object, then TableHandler().
genMutant(S, behOf) ==
    LET srcs == SelectSources(S, 1)
    IN  [i \in 1..Len(srcs) |->
            [src |-> srcs[Len(srcs) + 1 - i], beh |-> behOf[srcs[Len(srcs) + 1 - i]]]]
        \o <<[src |-> "default", beh |-> "answer"]>>

gen(S, behOf) ==
    LET srcs == SelectSources(S, 1)
    IN  [i \in 1..Len(srcs) |-> [src |-> srcs[i], beh |-> behOf[srcs[i]]]]
        \o <<[src |-> "default", beh |-> "answer"]>>

\* __new__: build the generator for this resolution and call self.next.
Dispatch ==
    /\ chainPc = "idle"
    /\ \E S \in SUBSET (1..Len(HandlerSources)) :
       \E behOf \in [Range(HandlerSources) -> Behaviors] :
          handlers' = gen(S, behOf)
    /\ genPos' = 0
    /\ callStack' = <<>>
    /\ chainPc' = "next"
    /\ chainOutcome' = "none"
    /\ chainResult' = 0
    /\ invoked' = <<>>
    /\ logged' = 0
    /\ UNCHANGED NotChain

\* What next() does with an exception raised by the function it called:
\* there is no try/except, the exception leaves next().
ThrowMutant == "next"

OnHandlerThrow == "raising"

\* next(): take the next function from the generator; raise when there is
\* none, else call it with nextHandler=self.next.
DispatcherNext ==
    /\ chainPc = "next"
    /\ IF genPos >= Len(handlers)
       THEN /\ chainPc' = "raising"
            /\ chainOutcome' = "exhausted"
            /\ UNCHANGED <<genPos, callStack, invoked>>
       ELSE /\ genPos' = genPos + 1
            /\ callStack' = Append(callStack, genPos + 1)
            /\ invoked' = Append(invoked, genPos + 1)
            /\ chainPc' = "body"
            /\ UNCHANGED chainOutcome
    /\ UNCHANGED <<handlers, chainResult, logged>>
    /\ UNCHANGED NotChain

\* A handler without an opinion: return nextHandler(**kwargs).
HandlerDefers ==
    /\ chainPc = "body"
    /\ handlers[Last(callStack)].beh = "defer"
    /\ chainPc' = "next"
    /\ UNCHANGED <<handlers, genPos, callStack, chainOutcome, chainResult,
                   invoked, logged>>
    /\ UNCHANGED NotChain

\* A handler that answers returns without calling nextHandler.
HandlerAnswers ==
    /\ chainPc = "body"
    /\ handlers[Last(callStack)].beh = "answer"
    /\ chainResult' = Last(callStack)
    /\ callStack' = Front(callStack)
    /\ chainPc' = "returning"
    /\ UNCHANGED <<handlers, genPos, chainOutcome, invoked, logged>>
    /\ UNCHANGED NotChain

\* A handler that raises.
HandlerThrows ==
    /\ chainPc = "body"
    /\ handlers[Last(callStack)].beh = "throw"
    /\ callStack' = Front(callStack)
    /\ chainPc' = OnHandlerThrow
    /\ chainOutcome' = IF OnHandlerThrow = "raising" THEN "raised" ELSE chainOutcome
    /\ logged' = IF OnHandlerThrow = "raising" THEN logged ELSE logged + 1
    /\ UNCHANGED <<handlers, genPos, chainResult, invoked>>
    /\ UNCHANGED NotChain

\* A deferring handler returns what nextHandler returned; the outermost
\* return leaves __new__ (finally: del self._gen).
DispatcherReturn ==
    /\ chainPc = "returning"
    /\ IF callStack = <<>>
       THEN /\ chainPc' = "done"
            /\ chainOutcome' = "returned"
            /\ UNCHANGED callStack
       ELSE /\ callStack' = Front(callStack)
            /\ UNCHANGED <<chainPc, chainOutcome>>
    /\ UNCHANGED <<handlers, genPos, chainResult, invoked, logged>>
    /\ UNCHANGED NotChain

\* An exception unwinds every frame (no handler in next() or __new__
\* catches it) and leaves __new__ through the finally clause.
DispatcherPropagate ==
    /\ chainPc = "raising"
    /\ IF callStack = <<>>
       THEN /\ chainPc' = "done"
            /\ UNCHANGED callStack
       ELSE /\ callStack' = Front(callStack)
            /\ UNCHANGED chainPc
    /\ UNCHANGED <<handlers, genPos, chainOutcome, chainResult, invoked, logged>>
    /\ UNCHANGED NotChain

ChainNext ==
    \/ Dispatch
    \/ DispatcherNext
    \/ HandlerDefers
    \/ HandlerAnswers
    \/ HandlerThrows
    \/ DispatcherReturn
    \/ DispatcherPropagate

\* =====================================================================
\* RowRegion: packing a row's cells into braille windows
\* =====================================================================

\* Longest row the model packs.
MaxCells == 3

\* cellWidth = None: the column takes the width of its own content.
NoWidth == -1

\* windowNumber / maxWindowNumber = None.
NoWindow == -1

DisplaySizes == {15, 40}

\* Widths a column can be configured with on a display of d cells: narrow
\* ones, and those around d (setColumnWidth stores up to d; the default of
\* 10 and a hand-written file can exceed a small display).
CellWidthsFor(d) == {0, 6, d - 1, d, d + 1}

\* Content lengths of the last cell: short, longer than the display.
ContentLensFor(d) == {3, d + 2}

Positions == {"DEFAULT", "BEFORE_SELECTION", "AFTER_SELECTION",
              "END_OF_WINDOW", "EOW_AFTER_SEL"}

\* Number of braille cells of ColumnSeparatorRegion.SCHEMES[scheme][position]
\* (the count of "-" separated dot patterns).
PatternLen(scheme, position) ==
    CASE scheme \in {"bar", "bracket"} -> 1
      [] scheme = "twoSpaces" ->
            IF position \in {"END_OF_WINDOW", "EOW_AFTER_SEL"} THEN 1 ELSE 2
      [] scheme \in {"barSpace", "bracketSpace"} ->
            IF position \in {"END_OF_WINDOW", "EOW_AFTER_SEL"} THEN 1 ELSE 2
      [] scheme = "spaceBarSpace" ->
            IF position \in {"END_OF_WINDOW", "EOW_AFTER_SEL"} THEN 2 ELSE 3

\* ColumnSeparatorRegion.handleConfigChange: the scheme chosen for a
\* separator style, a display size and the show-selection setting.
SchemeFor(style, d, showSelection) ==
    CASE style \in {0, 1} ->
            IF style = 1 /\ d > 40 THEN "barSpace"
            ELSE IF showSelection THEN "bar" ELSE "bracket"
      [] style = 2 -> "twoSpaces"
      [] style \in {3, 4} ->
            IF style = 4 /\ d >= 40 THEN "spaceBarSpace"
            ELSE IF showSelection THEN "barSpace" ELSE "bracketSpace"

\* ColumnSeparatorRegion.widthDefault and widthAtEoW.
widthDefault(scheme) == PatternLen(scheme, "DEFAULT")

widthAtEoW(scheme) == PatternLen(scheme, "END_OF_WINDOW")

\* The position given to the separator that ends a window.  A separator
\* after the selection becomes EOW_AFTER_SEL; for the other two the code
\* compares (==) instead of assigning, so the position stays what it was.
EowPosition(position) ==
    IF position = "AFTER_SELECTION" THEN "EOW_AFTER_SEL" ELSE position

\* Whether the column before the closing separator is resized.
ExpandMutant(position) == position = "AFTER_SELECTION"

ExpandPrevCell(position) ==
    position \in {"AFTER_SELECTION", "DEFAULT", "BEFORE_SELECTION"}

\* Whether the cell goes into the current window (the negation of the
\* "not enough room" test).
FitsMutant(winSize, cellWidth, last, scheme, d) ==
    winSize + cellWidth <= d \/ winSize = 0

Fits(winSize, cellWidth, last, scheme, d) ==
    \/ winSize + cellWidth + (IF last THEN 0 ELSE widthAtEoW(scheme)) <= d
    \/ winSize = 0

\* "Not enough room in the current window": shrink the separator that ends
\* the window, resize the column before it and move on to the next window.
CloseWindow(acc, scheme, d) ==
    LET cols == acc.columns
        n == Len(cols)
    IN  IF n = 0
        THEN [acc EXCEPT !.winNum = acc.winNum + 1, !.winSize = 0]
        ELSE LET colSep == cols[n]
                 expand == ExpandPrevCell(colSep.position)
                 sep2 == [colSep EXCEPT !.width = widthAtEoW(scheme),
                                        !.position = EowPosition(colSep.position)]
                 winSize2 == acc.winSize
                             - (cols[n - 1].width + widthDefault(scheme)
                                - widthAtEoW(scheme))
                 cols2 == [cols EXCEPT ![n] = sep2]
                 cols3 == IF expand
                          THEN [cols2 EXCEPT ![n - 1].width = d - winSize2]
                          ELSE cols2
             IN  [columns |-> cols3, winNum |-> acc.winNum + 1, winSize |-> 0]

\* One iteration of the loop of getColumns, for the cell at index.
PackCell(acc0, index, widths, sel, scheme, d) ==
    LET cellWidth == widths[index]
        last == index + 1 > Len(widths)
        acc == IF Fits(acc0.winSize, cellWidth, last, scheme, d)
               THEN acc0
               ELSE CloseWindow(acc0, scheme, d)
        width == IF last THEN NoWidth ELSE cellWidth
        cell == [win |-> acc.winNum, width |-> width, kind |-> "cell",
                 col |-> index, position |-> "NONE"]
        n == Len(acc.columns)
        before == IF index = sel /\ n > 0 /\ acc.columns[n].position = "DEFAULT"
                  THEN [acc.columns EXCEPT ![n].position = "BEFORE_SELECTION"]
                  ELSE acc.columns
        position == IF index = sel THEN "AFTER_SELECTION" ELSE "DEFAULT"
        sep == [win |-> acc.winNum, width |-> widthDefault(scheme), kind |-> "sep",
                col |-> index, position |-> position]
    IN  IF last
        THEN [columns |-> Append(before, cell), winNum |-> acc.winNum,
              winSize |-> acc.winSize]
        ELSE [columns |-> before \o <<cell, sep>>, winNum |-> acc.winNum,
              winSize |-> acc.winSize + cellWidth + widthDefault(scheme)]

RECURSIVE PackFrom(_, _, _, _, _, _)
PackFrom(acc, index, widths, sel, scheme, d) ==
    IF index > Len(widths) THEN acc
    ELSE PackFrom(PackCell(acc, index, widths, sel, scheme, d), index + 1,
                  widths, sel, scheme, d)

\* getColumns: the (window, width, object) triples and the last window.
getColumns(widths, sel, scheme, d) ==
    PackFrom([columns |-> <<>>, winNum |-> 0, winSize |-> 0], 1,
             widths, sel, scheme, d)

\* getWindowColumns: the triples of the window holding the RowRegion's cell
\* when the window number is unknown, else those of that window.
WindowOfCell(cols, sel) ==
    IF \E i \in 1..Len(cols) : cols[i].kind = "cell" /\ cols[i].col = sel
    THEN (CHOOSE c \in Range(cols) : c.kind = "cell" /\ c.col = sel).win
    ELSE NoWindow

getWindowColumns(cols, win) == SelectSeq(cols, LAMBDA c : c.win = win)

\* TabularBrailleBuffer.update: the number of braille cells a region gets.
\* A cell is cut or padded to its width, or keeps its content's length when
\* its width is None; a separator's update sets its width to the length of
\* the pattern of its position.
RegionLen(c, contentLen, scheme) ==
    IF c.kind = "sep" THEN PatternLen(scheme, c.position)
    ELSE IF c.width = NoWidth THEN contentLen
    ELSE c.width

RECURSIVE BufferLen(_, _, _)
BufferLen(cols, contentLen, scheme) ==
    IF cols = <<>> THEN 0
    ELSE RegionLen(Head(cols), contentLen, scheme)
         + BufferLen(Tail(cols), contentLen, scheme)

\* RowRegion.update: the buffer's cells, filled up to the display size.
PadMutant(len, d) == len

PadToDisplay(len, d) == IF d - len > 0 THEN len + (d - len) ELSE len

UpdatedLen(cols, win, contentLen, scheme, d) ==
    PadToDisplay(BufferLen(getWindowColumns(cols, win), contentLen, scheme), d)

\* RowRegion.__init__ for a cell of a row, on some display and settings.
FocusRow ==
    /\ packPc = "idle"
    /\ \E d \in DisplaySizes, style \in 0..4, showSelection \in BOOLEAN,
          n \in 1..MaxCells :
         /\ displaySize' = d
         /\ sepScheme' = SchemeFor(style, d, showSelection)
         /\ cellWidths' \in [1..n -> CellWidthsFor(d)]
         /\ lastCellLen' \in ContentLensFor(d)
         /\ selNum' \in 1..n
    /\ columns' = <<>>
    /\ maxWindowNumber' = NoWindow
    /\ windowNumber' = NoWindow
    /\ brailleLen' = 0
    /\ packPc' = "focused"
    /\ UNCHANGED NotPack

\* RowRegion.update: lay the row out, pick the window of the cell, render.
Update ==
    /\ packPc \in {"focused", "updated"}
    /\ LET res == getColumns(cellWidths, selNum, sepScheme, displaySize)
           win == IF windowNumber = NoWindow
                  THEN WindowOfCell(res.columns, selNum)
                  ELSE windowNumber
       IN  /\ columns' = res.columns
           /\ maxWindowNumber' = res.winNum
           /\ windowNumber' = win
           /\ brailleLen' = UpdatedLen(res.columns, win, lastCellLen, sepScheme,
                                       displaySize)
    /\ packPc' = "updated"
    /\ UNCHANGED <<displaySize, sepScheme, cellWidths, lastCellLen, selNum>>
    /\ UNCHANGED NotPack

\* RowRegion.nextLine, when the buffer has no further window of its own:
\* show the next packing window.
nextLine ==
    /\ packPc = "updated"
    /\ windowNumber < maxWindowNumber
    /\ windowNumber' = windowNumber + 1
    /\ brailleLen' = UpdatedLen(columns, windowNumber + 1, lastCellLen, sepScheme,
                                displaySize)
    /\ UNCHANGED <<displaySize, sepScheme, cellWidths, lastCellLen, selNum,
                   columns, maxWindowNumber, packPc>>
    /\ UNCHANGED NotPack

\* RowRegion.previousLine, likewise.
previousLine ==
    /\ packPc = "updated"
    /\ windowNumber > 0
    /\ windowNumber' = windowNumber - 1
    /\ brailleLen' = UpdatedLen(columns, windowNumber - 1, lastCellLen, sepScheme,
                                displaySize)
    /\ UNCHANGED <<displaySize, sepScheme, cellWidths, lastCellLen, selNum,
                   columns, maxWindowNumber, packPc>>
    /\ UNCHANGED NotPack

PackNext ==
    \/ FocusRow
    \/ Update
    \/ nextLine
    \/ previousLine

\* =====================================================================
\* NestedChainMap: a ChainMap that also chains its Mapping values
\* =====================================================================

\* Deepest nesting of the maps (cfg["columnWidthsByDisplaySize"][size][col]).
MaxDepth == 3

Keys == {"a", "b"}

Paths == UNION {[1..n -> Keys] : n \in 1..MaxDepth}

\* How many layers a chain has: a leaf over the defaults (the "" config),
\* or a leaf over the "" config's leaf over the defaults.
LayerCounts == {2, 3}

\* A nested dict is a function from paths to nodes: no entry, a Mapping, or
\* a scalar (the scalars of the layers are told apart by "x1", "x2", "x3";
\* "w" is the scalar assignments write).
AtomOf(i) == <<"x1", "x2", "x3">>[i]

EmptyDict == [p \in Paths |-> "absent"]

IsMapping(node) == node = "map"

\* The dicts a layer starts as: {} or {"b": ...} with "b" a scalar or a
\* dict with an optional scalar "a" and an optional dict "b" with an
\* optional scalar "a".
LayerShapes(i) ==
    {EmptyDict, [EmptyDict EXCEPT ![<<"b">>] = AtomOf(i)]}
    \cup {[p \in Paths |->
              CASE p = <<"b">> -> "map"
                [] p = <<"b", "a">> -> ba
                [] p = <<"b", "b">> -> bb
                [] p = <<"b", "b", "a">> -> IF bb = "map" THEN bba ELSE "absent"
                [] OTHER -> "absent"] :
            ba \in {"absent", AtomOf(i)}, bb \in {"absent", "map"},
            bba \in {"absent", AtomOf(i)}}

NoOp == [kind |-> "none", path |-> <<>>, value |-> "none", outcome |-> "none",
         result |-> "none"]

\* A dict object: the dict at path of layer i, or (layer 0) the fresh dict
\* of a virtual view, not stored anywhere yet.
Ref(i, path) == [layer |-> i, path |-> path]

\* dict.get(key) on the dict a ref names ("absent" for None).
NodeAt(L, ref, key) ==
    IF ref.layer = 0 \/ Len(ref.path) >= MaxDepth THEN "absent"
    ELSE L[ref.layer][Append(ref.path, key)]

Child(ref, key) == Ref(ref.layer, Append(ref.path, key))

\* NestedChainMap(*maps) for the layers themselves.
RootView(L) == [maps |-> [i \in 1..Len(L) |-> Ref(i, <<>>)], virtual |-> FALSE]

\* ChainMap.__getitem__: the first map of the view that has the key
\* (0 when none has it: KeyError).
RECURSIVE FoundAt(_, _, _, _)
FoundAt(L, maps, key, i) ==
    IF i > Len(maps) THEN 0
    ELSE IF NodeAt(L, maps[i], key) # "absent" THEN i
    ELSE FoundAt(L, maps, key, i + 1)

\* _nested: the parents of the nested view: the values of the following
\* maps, up to the first one whose value is not a Mapping (or is missing).
RECURSIVE Parents(_, _, _, _)
Parents(L, maps, key, i) ==
    IF i > Len(maps) THEN <<>>
    ELSE IF ~IsMapping(NodeAt(L, maps[i], key)) THEN <<>>
    ELSE <<Child(maps[i], key)>> \o Parents(L, maps, key, i + 1)

\* _nested: first = self.maps[0].get(key, virtual).
FirstMutant(L, view, key) == Child(view.maps[FoundAt(L, view.maps, key, 1)], key)

First(L, view, key) ==
    IF NodeAt(L, view.maps[1], key) # "absent"
    THEN Child(view.maps[1], key)
    ELSE Ref(0, Append(view.maps[1].path, key))

\* __getitem__ then _nested: a scalar, a nested view, or a KeyError.
GetItem(L, view, key) ==
    LET i == FoundAt(L, view.maps, key, 1)
        value == IF i = 0 THEN "absent" ELSE NodeAt(L, view.maps[i], key)
    IN  IF i = 0 THEN [kind |-> "KeyError"]
        ELSE IF ~IsMapping(value) THEN [kind |-> "scalar", value |-> value]
        ELSE IF Len(view.maps) < 2
        THEN [kind |-> "view",
              view |-> [maps |-> <<Child(view.maps[i], key)>>, virtual |-> FALSE]]
        ELSE LET first == First(L, view, key)
             IN  [kind |-> "view",
                  view |-> [maps |-> <<first>> \o Parents(L, view.maps, key, 2),
                            virtual |-> first.layer = 0]]

\* ncm[k1][k2]...: the results of the successive lookups; the sequence stops
\* at the first result that is not a view.
RECURSIVE Lookups(_, _, _)
Lookups(L, view, path) ==
    IF path = <<>> THEN <<>>
    ELSE LET r == GetItem(L, view, Head(path))
         IN  IF r.kind = "view"
             THEN <<r>> \o Lookups(L, r.view, Tail(path))
             ELSE <<r>>

\* The outcome of reading ncm[k1]...[kn].
Read(L, path) ==
    LET rs == Lookups(L, RootView(L), path)
        r == Last(rs)
    IN  IF Len(rs) < Len(path)
        THEN IF r.kind = "KeyError" THEN [kind |-> "KeyError"]
             ELSE [kind |-> "TypeError"]
        ELSE r

\* dict[key] = value on the dict at base: the entry is replaced, with all
\* that was below it.
Store(tree, at, node) ==
    [p \in Paths |->
        IF p = at THEN node
        ELSE IF Len(p) > Len(at) /\ SubSeq(p, 1, Len(at)) = at THEN "absent"
        ELSE tree[p]]

\* The fresh dicts of the virtual views, pushed to their containers:
\* {k(j+1): {... {kn: value}}} stored under base.
RECURSIVE StoreNested(_, _, _, _)
StoreNested(tree, base, keys, node) ==
    IF Len(keys) = 1 THEN Store(tree, Append(base, keys[1]), node)
    ELSE StoreNested(Store(tree, Append(base, keys[1]), "map"),
                     Append(base, keys[1]), Tail(keys), node)

\* The deepest view of the chain that is not virtual (0 is the root map).
RECURSIVE DeepestReal(_, _)
DeepestReal(views, j) ==
    IF j = 0 THEN 0
    ELSE IF ~views[j].view.virtual THEN j
    ELSE DeepestReal(views, j - 1)

\* ncm[k1]...[kn] = value: __setitem__ on the last view stores into its
\* maps[0]; a virtual view then pushes its dict to its container, and so on
\* up to the first view that is not virtual.
Assign(L, path, node) ==
    LET rs == Lookups(L, RootView(L), Front(path))
        ok == Len(rs) = Len(path) - 1 /\ (rs = <<>> \/ Last(rs).kind = "view")
        j == DeepestReal(rs, Len(rs))
        target == IF j = 0 THEN Ref(1, <<>>) ELSE rs[j].view.maps[1]
        keys == SubSeq(path, j + 1, Len(path))
    IN  IF ~ok
        THEN [outcome |-> IF Last(rs).kind = "KeyError" THEN "KeyError"
                          ELSE "TypeError",
              layers |-> L]
        ELSE [outcome |-> "ok",
              layers |-> [L EXCEPT ![target.layer] =
                             StoreNested(L[target.layer], target.path, keys, node)]]

\* The chain a TableConfig builds: its own layer, then the layers of the ""
\* config, the defaults last.
BuildChain ==
    /\ mapPc = "idle"
    /\ \E n \in LayerCounts :
         layers' \in {L \in [1..n -> UNION {LayerShapes(i) : i \in 1..n}] :
                         \A i \in 1..n : L[i] \in LayerShapes(i)}
    /\ prevLayers' = layers'
    /\ mapOp' = NoOp
    /\ mapPc' = "built"
    /\ UNCHANGED NotMap

\* value = ncm[k1]...[kn]
GetPath ==
    /\ mapPc = "built"
    /\ \E path \in Paths :
         LET r == Read(layers, path)
         IN  mapOp' = [kind |-> "get", path |-> path, value |-> "none",
                       outcome |-> IF r.kind \in {"KeyError", "TypeError"}
                                   THEN r.kind ELSE "ok",
                       result |-> IF r.kind = "scalar" THEN r.value
                                  ELSE IF r.kind = "view" THEN "map"
                                  ELSE "none"]
    /\ mapPc' = "read"
    /\ UNCHANGED <<layers, prevLayers>>
    /\ UNCHANGED NotMap

\* ncm[k1]...[kn] = value, for a scalar or an empty dict
SetPath ==
    /\ mapPc = "built"
    /\ \E path \in Paths, node \in {"w", "map"} :
         LET r == Assign(layers, path, node)
         IN  /\ layers' = r.layers
             /\ mapOp' = [kind |-> "set", path |-> path, value |-> node,
                          outcome |-> r.outcome, result |-> "none"]
    /\ prevLayers' = layers
    /\ mapPc' = "assigned"
    /\ UNCHANGED NotMap

MapNext ==
    \/ BuildChain
    \/ GetPath
    \/ SetPath

\* =====================================================================
\* TableConfig: the config store, its synchronized methods and its file
\* =====================================================================

Threads == {1, 2}

\* Config keys: "" is the config every other config is layered over.
UserKeys == {"T1", "T2"}

AllKeys == UserKeys \cup {""}

\* The records of the data file, by key: "absent", or the config data the
\* record holds ("v0" from an earlier session, "w1"/"w2" as set by thread 1/2,
\* "empty" for {}).
NoRecs == [k \in AllKeys |-> "absent"]

\* FILE_PATH and FILE_PATH.tmp: no file, a complete JSON document, a file
\* opened for writing and not yet written in full, or a file two handles
\* wrote over each other.
NoFile == [kind |-> "none", recs |-> NoRecs]

InitialFiles ==
    {NoFile, [kind |-> "complete", recs |-> [NoRecs EXCEPT !["T1"] = "v0"]]}

NoTmp == [kind |-> "none", recs |-> NoRecs, writers |-> {}, mixed |-> FALSE]

\* A TableConfig instance is named by the thread that constructed it and its
\* key; NoObj is None.
NoObj == [by |-> 0, key |-> ""]

Objects == [by : Threads, key : AllKeys]

NewValue(t) == <<"w1", "w2">>[t]

\* One call of a synchronized method: the wrapper's and the body's position
\* and locals.
Frame(fn, key, obj) ==
    [fn |-> fn, pc |-> "hasattr", key |-> key, lock |-> 0, obj |-> obj,
     aux |-> NoObj, data |-> NoRecs, cat |-> 0]

Top(t) == stack[t][Len(stack[t])]

At(t, fn, pc) == stack[t] # <<>> /\ Top(t).fn = fn /\ Top(t).pc = pc

SetTop(t, frame) == [stack EXCEPT ![t] = [stack[t] EXCEPT ![Len(stack[t])] = frame]]

\* The call of another synchronized method from a body.
Call(t, caller, callee) ==
    [stack EXCEPT ![t] = Append([stack[t] EXCEPT ![Len(stack[t])] = caller], callee)]

\* `with lock:` has been entered by the frame.
InBody(frame) == frame.pc \notin {"hasattr", "setattr", "getattr", "acquire"}

\* The RLock is owned by the thread (any number of times).
Holds(t, lock) ==
    \E i \in 1..Len(stack[t]) : stack[t][i].lock = lock /\ InBody(stack[t][i])

\* _cache is a WeakValueDictionary: an entry lasts as long as something
\* else refers to the instance.
Referenced(o, stk, g) ==
    \E t \in Threads :
        \/ g[t] = o
        \/ \E i \in 1..Len(stk[t]) : stk[t][i].obj = o \/ stk[t][i].aux = o

Sweep(c, stk, g) ==
    [k \in AllKeys |-> IF c[k] # NoObj /\ Referenced(c[k], stk, g) THEN c[k] ELSE NoObj]

\* An exception leaves every `with lock:` of the thread, up to the caller of
\* the operation.
Raise(t, exc) ==
    /\ stack' = [stack EXCEPT ![t] = <<>>]
    /\ thrPc' = [thrPc EXCEPT ![t] = "done"]
    /\ outcome' = [outcome EXCEPT ![t] = exc]
    /\ cache' = Sweep(cache, stack', got)

\* initialize(): the catalog loading thread is started; the data file is
\* what an earlier session left.
initialize ==
    /\ storePc = "down"
    /\ storePc' = "up"
    /\ file' \in InitialFiles
    /\ UNCHANGED <<loaderDone, lockAttr, cache, catalogAttr, catLists, objData, tmp,
                   stack, thrPc, got, outcome, writeFailed, writeLogged>>
    /\ UNCHANGED NotStore

\* loadCatalog, the target of the loading thread: it evaluates
\* TableConfig.catalog without calling it, and ends.
loadCatalog ==
    /\ storePc = "up"
    /\ ~loaderDone
    /\ loaderDone' = TRUE
    /\ UNCHANGED <<storePc, lockAttr, cache, catalogAttr, catLists, objData, file, tmp,
                   stack, thrPc, got, outcome, writeFailed, writeLogged>>
    /\ UNCHANGED NotStore

\* ---- the operations a thread calls ----

\* TableConfig.get(key)
callGet(t) ==
    /\ storePc = "up"
    /\ thrPc[t] = "idle"
    /\ \E key \in UserKeys : stack' = [stack EXCEPT ![t] = <<Frame("get", key, NoObj)>>]
    /\ thrPc' = [thrPc EXCEPT ![t] = "get"]
    /\ UNCHANGED <<storePc, loaderDone, lockAttr, cache, catalogAttr, catLists, objData,
                   file, tmp, got, outcome, writeFailed, writeLogged>>
    /\ UNCHANGED NotStore

\* cfg[name] = value, or cfg.setColumnWidth(col, width) with width >= 0: the
\* leaf map is assigned, then self.save() is called.
setItem(t) ==
    /\ thrPc[t] = "got"
    /\ objData' = [objData EXCEPT ![got[t]] = NewValue(t)]
    /\ stack' = [stack EXCEPT ![t] = <<Frame("save", got[t].key, got[t])>>]
    /\ thrPc' = [thrPc EXCEPT ![t] = "save"]
    /\ UNCHANGED <<storePc, loaderDone, lockAttr, cache, catalogAttr, catLists,
                   file, tmp, got, outcome, writeFailed, writeLogged>>
    /\ UNCHANGED NotStore

\* TableConfig.remove(key)
callRemove(t) ==
    /\ storePc = "up"
    /\ thrPc[t] = "idle"
    /\ \E key \in UserKeys : stack' = [stack EXCEPT ![t] = <<Frame("remove", key, NoObj)>>]
    /\ thrPc' = [thrPc EXCEPT ![t] = "remove"]
    /\ UNCHANGED <<storePc, loaderDone, lockAttr, cache, catalogAttr, catLists, objData,
                   file, tmp, got, outcome, writeFailed, writeLogged>>
    /\ UNCHANGED NotStore

\* ---- synchronized: the wrapper around every method below ----

\* if not hasattr(holder, lockAttrName):
wrapperHasattr(t) ==
    /\ stack[t] # <<>>
    /\ Top(t).pc = "hasattr"
    /\ stack' = SetTop(t, [Top(t) EXCEPT !.pc = IF lockAttr = 0 THEN "setattr"
                                                 ELSE "getattr"])
    /\ UNCHANGED <<storePc, loaderDone, lockAttr, cache, catalogAttr, catLists, objData,
                   file, tmp, thrPc, got, outcome, writeFailed, writeLogged>>
    /\ UNCHANGED NotStore

\* lock = lockCreator(); setattr(holder, lockAttrName, lock): the lock a
\* thread creates is named by the thread.
wrapperSetattr(t) ==
    /\ stack[t] # <<>>
    /\ Top(t).pc = "setattr"
    /\ lockAttr' = t
    /\ stack' = SetTop(t, [Top(t) EXCEPT !.pc = "getattr"])
    /\ UNCHANGED <<storePc, loaderDone, cache, catalogAttr, catLists, objData,
                   file, tmp, thrPc, got, outcome, writeFailed, writeLogged>>
    /\ UNCHANGED NotStore

\* lock = getattr(holder, lockAttrName)
wrapperGetattr(t) ==
    /\ stack[t] # <<>>
    /\ Top(t).pc = "getattr"
    /\ stack' = SetTop(t, [Top(t) EXCEPT !.pc = "acquire", !.lock = lockAttr])
    /\ UNCHANGED <<storePc, loaderDone, lockAttr, cache, catalogAttr, catLists, objData,
                   file, tmp, thrPc, got, outcome, writeFailed, writeLogged>>
    /\ UNCHANGED NotStore

\* threading.RLock: the lock is free, or the thread's own
CanAcquireMutant(t, lock) == \A u \in Threads : ~Holds(u, lock)

CanAcquire(t, lock) == \A u \in Threads \ {t} : ~Holds(u, lock)

\* with lock:
wrapperAcquire(t) ==
    /\ stack[t] # <<>>
    /\ Top(t).pc = "acquire"
    /\ CanAcquire(t, Top(t).lock)
    /\ stack' = SetTop(t, [Top(t) EXCEPT !.pc = "body"])
    /\ UNCHANGED <<storePc, loaderDone, lockAttr, cache, catalogAttr, catLists, objData,
                   file, tmp, thrPc, got, outcome, writeFailed, writeLogged>>
    /\ UNCHANGED NotStore

\* ---- TableConfig.read ----

\* The value a method returns to the frame below it.
ReturnData(t, data) ==
    [stack EXCEPT ![t] = [Front(stack[t]) EXCEPT ![Len(stack[t]) - 1].data = data]]

ReturnCat(t, cat) ==
    [stack EXCEPT ![t] = [Front(stack[t]) EXCEPT ![Len(stack[t]) - 1].cat = cat]]

ReturnObj(t, o) ==
    [stack EXCEPT ![t] = [Front(stack[t]) EXCEPT ![Len(stack[t]) - 1].obj = o]]

\* json.load of the data file; None (no records) when there is no file; a
\* file that is not a JSON document raises.
read(t) ==
    /\ At(t, "read", "body")
    /\ IF file.kind \in {"none", "complete"}
       THEN /\ stack' = ReturnData(t, file.recs)
            /\ UNCHANGED <<cache, thrPc, outcome>>
       ELSE Raise(t, "JSONDecodeError")
    /\ UNCHANGED <<storePc, loaderDone, lockAttr, catalogAttr, catLists, objData,
                   file, tmp, got, writeFailed, writeLogged>>
    /\ UNCHANGED NotStore

\* ---- TableConfig.catalog ----

\* cls._catalogLoadingThread.join() returns once the loading thread has ended.
JoinMutant == TRUE

Joined == loaderDone

\* _catalogLoadingThread.join(), then the catalog if there is one, else
\* cls.read()
catalog(t) ==
    /\ At(t, "catalog", "body")
    /\ Joined
    /\ IF catalogAttr # 0
       THEN stack' = ReturnCat(t, catalogAttr)
       ELSE stack' = Call(t, [Top(t) EXCEPT !.pc = "assign"], Frame("read", "", NoObj))
    /\ UNCHANGED <<storePc, loaderDone, lockAttr, cache, catalogAttr, catLists, objData,
                   file, tmp, thrPc, got, outcome, writeFailed, writeLogged>>
    /\ UNCHANGED NotStore

\* catalog = cls._catalog = [item["key"] for item in ...]: the list a
\* thread builds is named by the thread.
catalogAssign(t) ==
    /\ At(t, "catalog", "assign")
    /\ catLists' = [catLists EXCEPT ![t] = {k \in AllKeys : Top(t).data[k] # "absent"}]
    /\ catalogAttr' = t
    /\ stack' = ReturnCat(t, t)
    /\ UNCHANGED <<storePc, loaderDone, lockAttr, cache, objData,
                   file, tmp, thrPc, got, outcome, writeFailed, writeLogged>>
    /\ UNCHANGED NotStore

\* ---- TableConfig.load ----

load(t) ==
    /\ At(t, "load", "body")
    /\ stack' = Call(t, [Top(t) EXCEPT !.pc = "find"], Frame("read", "", NoObj))
    /\ UNCHANGED <<storePc, loaderDone, lockAttr, cache, catalogAttr, catLists, objData,
                   file, tmp, thrPc, got, outcome, writeFailed, writeLogged>>
    /\ UNCHANGED NotStore

\* return cls(key=key, data=item["config"]), or LookupError
loadFind(t) ==
    /\ At(t, "load", "find")
    /\ LET key == Top(t).key
           o == [by |-> t, key |-> key]
       IN  IF Top(t).data[key] # "absent"
           THEN /\ objData' = [objData EXCEPT ![o] = Top(t).data[key]]
                /\ stack' = ReturnObj(t, o)
                /\ UNCHANGED <<cache, thrPc, outcome>>
           ELSE /\ Raise(t, "LookupError")
                /\ UNCHANGED objData
    /\ UNCHANGED <<storePc, loaderDone, lockAttr, catalogAttr, catLists,
                   file, tmp, got, writeFailed, writeLogged>>
    /\ UNCHANGED NotStore

\* ---- TableConfig.get ----

\* return cfg: to the get that asked for the "" config, or to the thread
GetReturns(t, o) ==
    IF Len(stack[t]) = 1
    THEN /\ stack' = [stack EXCEPT ![t] = <<>>]
         /\ got' = [got EXCEPT ![t] = o]
         /\ thrPc' = [thrPc EXCEPT ![t] = "got"]
    ELSE /\ stack' = [stack EXCEPT ![t] =
                         [Front(stack[t]) EXCEPT ![Len(stack[t]) - 1].aux = o]]
         /\ UNCHANGED <<got, thrPc>>

\* cfg = cls._cache.get(strKey); a hit is returned, a miss asks the catalog
get(t) ==
    /\ At(t, "get", "body")
    /\ IF cache[Top(t).key] # NoObj
       THEN GetReturns(t, cache[Top(t).key])
       ELSE /\ stack' = Call(t, [Top(t) EXCEPT !.pc = "missing"],
                             Frame("catalog", "", NoObj))
            /\ UNCHANGED <<got, thrPc>>
    /\ UNCHANGED <<storePc, loaderDone, lockAttr, cache, catalogAttr, catLists, objData,
                   file, tmp, outcome, writeFailed, writeLogged>>
    /\ UNCHANGED NotStore

\* missing = key not in cls.catalog(); cfg = cls(key) or cfg = cls.load(key)
getMissing(t) ==
    /\ At(t, "get", "missing")
    /\ LET key == Top(t).key
           o == [by |-> t, key |-> key]
       IN  IF key \notin catLists[Top(t).cat]
           THEN /\ objData' = [objData EXCEPT ![o] = "empty"]
                /\ stack' = SetTop(t, [Top(t) EXCEPT !.pc = "layers", !.obj = o])
           ELSE /\ stack' = Call(t, [Top(t) EXCEPT !.pc = "layers"],
                                 Frame("load", key, NoObj))
                /\ UNCHANGED objData
    /\ UNCHANGED <<storePc, loaderDone, lockAttr, cache, catalogAttr, catLists,
                   file, tmp, thrPc, got, outcome, writeFailed, writeLogged>>
    /\ UNCHANGED NotStore

\* if key != "": cls.get("") is called for its layers; else the defaults
\* are appended
getLayers(t) ==
    /\ At(t, "get", "layers")
    /\ IF Top(t).key # ""
       THEN stack' = Call(t, [Top(t) EXCEPT !.pc = "extend"], Frame("get", "", NoObj))
       ELSE stack' = SetTop(t, [Top(t) EXCEPT !.pc = "cache"])
    /\ UNCHANGED <<storePc, loaderDone, lockAttr, cache, catalogAttr, catLists, objData,
                   file, tmp, thrPc, got, outcome, writeFailed, writeLogged>>
    /\ UNCHANGED NotStore

\* cfg.map.maps.extend(...): the "" config itself is let go
getExtend(t) ==
    /\ At(t, "get", "extend")
    /\ stack' = SetTop(t, [Top(t) EXCEPT !.pc = "cache", !.aux = NoObj])
    /\ cache' = Sweep(cache, stack', got)
    /\ UNCHANGED <<storePc, loaderDone, lockAttr, catalogAttr, catLists, objData,
                   file, tmp, thrPc, got, outcome, writeFailed, writeLogged>>
    /\ UNCHANGED NotStore

\* cls._cache[strKey] = cfg; return cfg
getCache(t) ==
    /\ At(t, "get", "cache")
    /\ cache' = [cache EXCEPT ![Top(t).key] = Top(t).obj]
    /\ GetReturns(t, Top(t).obj)
    /\ UNCHANGED <<storePc, loaderDone, lockAttr, catalogAttr, catLists, objData,
                   file, tmp, outcome, writeFailed, writeLogged>>
    /\ UNCHANGED NotStore

\* ---- TableConfig.save ----

save(t) ==
    /\ At(t, "save", "body")
    /\ stack' = Call(t, [Top(t) EXCEPT !.pc = "update"], Frame("read", "", NoObj))
    /\ UNCHANGED <<storePc, loaderDone, lockAttr, cache, catalogAttr, catLists, objData,
                   file, tmp, thrPc, got, outcome, writeFailed, writeLogged>>
    /\ UNCHANGED NotStore

\* The records save writes: those it read, with the record of its key
\* naming the config's leaf map.
Configs(frame) == [frame.data EXCEPT ![frame.key] = objData[frame.obj]]

\* the record of the key is found, or appended with self._catalog.append(key)
saveUpdate(t) ==
    /\ At(t, "save", "update")
    /\ IF Top(t).data[Top(t).key] # "absent"
       THEN /\ stack' = SetTop(t, [Top(t) EXCEPT !.pc = "open"])
            /\ UNCHANGED <<catLists, cache, thrPc, outcome>>
       ELSE IF catalogAttr = 0
       THEN /\ Raise(t, "AttributeError")
            /\ UNCHANGED catLists
       ELSE /\ catLists' = [catLists EXCEPT ![catalogAttr] = @ \cup {Top(t).key}]
            /\ stack' = SetTop(t, [Top(t) EXCEPT !.pc = "open"])
            /\ UNCHANGED <<cache, thrPc, outcome>>
    /\ UNCHANGED <<storePc, loaderDone, lockAttr, catalogAttr, objData,
                   file, tmp, got, writeFailed, writeLogged>>
    /\ UNCHANGED NotStore

\* except Exception: log.exception()
WriteFailureMutant == "raise"

OnWriteFailure == "log"

\* An exception between open(tmpPath) and os.replace: save ends there.
WriteFails(t) ==
    /\ writeFailed' = writeFailed \cup {t}
    /\ IF OnWriteFailure = "log"
       THEN /\ writeLogged' = writeLogged \cup {t}
            /\ stack' = [stack EXCEPT ![t] = <<>>]
            /\ thrPc' = [thrPc EXCEPT ![t] = "done"]
            /\ outcome' = [outcome EXCEPT ![t] = "returned"]
            /\ UNCHANGED cache
       ELSE /\ Raise(t, "OSError")
            /\ UNCHANGED writeLogged

\* open(tmpPath, "w"): the file is created or truncated; a handle another
\* save still has open goes on writing to the same file.
saveOpen(t) ==
    /\ At(t, "save", "open")
    /\ \/ /\ tmp' = [kind |-> "partial", recs |-> NoRecs,
                     writers |-> tmp.writers \cup {t}, mixed |-> tmp.writers # {}]
          /\ stack' = SetTop(t, [Top(t) EXCEPT !.pc = "dump"])
          /\ UNCHANGED <<cache, thrPc, outcome, writeFailed, writeLogged>>
       \/ /\ WriteFails(t)
          /\ UNCHANGED tmp
    /\ UNCHANGED <<storePc, loaderDone, lockAttr, catalogAttr, catLists, objData,
                   file, got>>
    /\ UNCHANGED NotStore

\* json.dump(configs, f) and the close of the file: the document is
\* written in full, unless another handle wrote to the file as well, when
\* what results may be no document at all.
saveDump(t) ==
    /\ At(t, "save", "dump")
    /\ \/ /\ \E kind \in (IF tmp.mixed THEN {"complete", "garbled"} ELSE {"complete"}) :
                tmp' = [kind |-> kind,
                        recs |-> IF kind = "complete" THEN Configs(Top(t)) ELSE NoRecs,
                        writers |-> tmp.writers \ {t}, mixed |-> tmp.mixed]
          /\ stack' = SetTop(t, [Top(t) EXCEPT !.pc = "replace"])
          /\ UNCHANGED <<cache, thrPc, outcome, writeFailed, writeLogged>>
       \/ /\ WriteFails(t)
          /\ tmp' = [tmp EXCEPT !.writers = @ \ {t}]
    /\ UNCHANGED <<storePc, loaderDone, lockAttr, catalogAttr, catLists, objData,
                   file, got>>
    /\ UNCHANGED NotStore

\* os.replace(tmpPath, self.FILE_PATH): it fails when the temporary file is
\* gone or still open elsewhere.
saveReplace(t) ==
    /\ At(t, "save", "replace")
    /\ \/ /\ tmp.kind # "none"
          /\ tmp.writers = {}
          /\ file' = [kind |-> tmp.kind, recs |-> tmp.recs]
          /\ tmp' = NoTmp
          /\ stack' = [stack EXCEPT ![t] = <<>>]
          /\ thrPc' = [thrPc EXCEPT ![t] = "done"]
          /\ outcome' = [outcome EXCEPT ![t] = "returned"]
          /\ UNCHANGED <<cache, writeFailed, writeLogged>>
       \/ /\ WriteFails(t)
          /\ UNCHANGED <<file, tmp>>
    /\ UNCHANGED <<storePc, loaderDone, lockAttr, catalogAttr, catLists, objData, got>>
    /\ UNCHANGED NotStore

\* ---- TableConfig.remove ----

remove(t) ==
    /\ At(t, "remove", "body")
    /\ stack' = Call(t, [Top(t) EXCEPT !.pc = "delete"], Frame("read", "", NoObj))
    /\ UNCHANGED <<storePc, loaderDone, lockAttr, cache, catalogAttr, catLists, objData,
                   file, tmp, thrPc, got, outcome, writeFailed, writeLogged>>
    /\ UNCHANGED NotStore

\* The record is deleted from the list read and the key from the catalog,
\* or LookupError; then `self.FILE_PATH` in a classmethod: NameError before
\* the file is opened.
removeDelete(t) ==
    /\ At(t, "remove", "delete")
    /\ LET key == Top(t).key
       IN  IF Top(t).data[key] = "absent"
           THEN /\ Raise(t, "LookupError")
                /\ UNCHANGED catLists
           ELSE IF catalogAttr = 0
           THEN /\ Raise(t, "AttributeError")
                /\ UNCHANGED catLists
           ELSE IF key \notin catLists[catalogAttr]
           THEN /\ Raise(t, "ValueError")
                /\ UNCHANGED catLists
           ELSE /\ catLists' = [catLists EXCEPT ![catalogAttr] = @ \ {key}]
                /\ Raise(t, "NameError")
    /\ UNCHANGED <<storePc, loaderDone, lockAttr, catalogAttr, objData,
                   file, tmp, got, writeFailed, writeLogged>>
    /\ UNCHANGED NotStore

\* The steps a thread takes inside a call of a store method.
StoreStep(t) ==
    \/ wrapperHasattr(t)
    \/ wrapperSetattr(t)
    \/ wrapperGetattr(t)
    \/ wrapperAcquire(t)
    \/ read(t)
    \/ catalog(t)
    \/ catalogAssign(t)
    \/ load(t)
    \/ loadFind(t)
    \/ get(t)
    \/ getMissing(t)
    \/ getLayers(t)
    \/ getExtend(t)
    \/ getCache(t)
    \/ save(t)
    \/ saveUpdate(t)
    \/ saveOpen(t)
    \/ saveDump(t)
    \/ saveReplace(t)
    \/ remove(t)
    \/ removeDelete(t)

\* A thread that can run does run: the loading thread and every caller.
StoreFairness ==
    /\ WF_vars(loadCatalog)
    /\ \A t \in Threads : WF_vars(StoreStep(t))

StoreNext ==
    \/ initialize
    \/ loadCatalog
    \/ \E t \in Threads :
        \/ callGet(t)
        \/ setItem(t)
        \/ callRemove(t)
        \/ wrapperHasattr(t)
        \/ wrapperSetattr(t)
        \/ wrapperGetattr(t)
        \/ wrapperAcquire(t)
        \/ read(t)
        \/ catalog(t)
        \/ catalogAssign(t)
        \/ load(t)
        \/ loadFind(t)
        \/ get(t)
        \/ getMissing(t)
        \/ getLayers(t)
        \/ getExtend(t)
        \/ getCache(t)
        \/ save(t)
        \/ saveUpdate(t)
        \/ saveOpen(t)
        \/ saveDump(t)
        \/ saveReplace(t)
        \/ remove(t)
        \/ removeDelete(t)

\* =====================================================================
\* TableManager: the header and mark commands on the table's config
\* =====================================================================

\* Rows and columns are numbered from 1.
MaxNum == 2

\* The untimed repeat count is only tested against 0: it stops counting here.
MaxRepeat == 2

Nums == 1..MaxNum

\* Python values in the config: None, False (False == 0), True, and a key
\* that is not in a dict.
PyNone == -1

PyFalse == 0

PyTrue == 1

Missing == -2

\* The commands work on row numbers (setColumnHeader, toggleMarkedRow, with
\* the settings columnHeaderRowNumber and markedRowNumbers) or on column
\* numbers (setRowHeader, toggleMarkedColumn, with rowHeaderColumnNumber and
\* markedColumnNumbers).
Axes == {"row", "column"}

HeaderKey(ax) == IF ax = "row" THEN "columnHeaderRowNumber" ELSE "rowHeaderColumnNumber"

\* The key the toggle command reads to find the header of its axis.
ToggleHeaderKey(ax) == IF ax = "row" THEN "rowHeaderRowNumber" ELSE "rowHeaderColumnNumber"

NoMarks == [n \in Nums |-> Missing]

\* A layer of the config, for the axis: the header setting, the marked
\* numbers map and whether the layer has that map at all.
EmptyLayer == [hdr |-> Missing, marks |-> NoMarks, has |-> FALSE]

\* The layer of the "" config under the table's own.
ParentConfigs ==
    {EmptyLayer,
     [hdr |-> 1, marks |-> [NoMarks EXCEPT ![1] = PyNone], has |-> TRUE],
     [hdr |-> Missing, marks |-> [NoMarks EXCEPT ![MaxNum] = PyTrue], has |-> TRUE]}

\* TableConfig.__getitem__: self.map.get(key, default=None), the defaults
\* being None for the header settings; a key no layer has gives None.
CfgGet(leaf, parent, ax, key) ==
    IF key # HeaderKey(ax) THEN PyNone
    ELSE IF leaf.hdr # Missing THEN leaf.hdr
    ELSE IF parent.hdr # Missing THEN parent.hdr
    ELSE PyNone

\* cfg["marked...Numbers"], a nested view: `num in marked` and marked[num]
MarkedHas(leaf, parent, n) == leaf.marks[n] # Missing \/ parent.marks[n] # Missing

MarkedGet(leaf, parent, n) ==
    IF leaf.marks[n] # Missing THEN leaf.marks[n] ELSE parent.marks[n]

\* The marked numbers map as read through the config.
MarkedView(leaf, parent) == [n \in Nums |-> MarkedGet(leaf, parent, n)]

\* marked.pop(key, None): from the first map only, which is not stored
\* when it is the fresh dict of a virtual view
MarkedPopMutant(leaf, key) == leaf

MarkedPop(leaf, key) ==
    IF key \in Nums THEN [leaf EXCEPT !.marks[key] = Missing] ELSE leaf

\* marked[num] = value: into the leaf, which gets the map if it had none
MarkedSet(leaf, n, value) == [leaf EXCEPT !.marks[n] = value, !.has = TRUE]

\* python truth of a mark
TruthyMutant(value) == TRUE

Truthy(value) == value = PyTrue

\* getLastScriptUntimedRepeatCount() > 0: the press repeats the command
RepeatMutant(count) == FALSE

IsRepeat(count) == count > 0

\* script_setColumnHeader / script_setRowHeader on the current number
\* (0: not in a table cell), with the untimed repeat count of this press.
SetHeader(leaf, parent, ax, cur, count) ==
    LET headerNum == CfgGet(leaf, parent, ax, HeaderKey(ax))
        popped == MarkedPop(leaf, headerNum)
    IN  IF cur = 0
        THEN [leaf |-> leaf, msg |-> "Not in a table cell", error |-> "none", saves |-> FALSE]
        ELSE IF headerNum = cur
        THEN [leaf |-> [popped EXCEPT !.hdr = PyNone], msg |-> "header reset to default",
              error |-> "none", saves |-> TRUE]
        ELSE IF IsRepeat(count) /\ headerNum = PyNone
        THEN [leaf |-> [popped EXCEPT !.hdr = PyFalse], msg |-> "header disabled",
              error |-> "none", saves |-> TRUE]
        ELSE [leaf |-> [MarkedSet(popped, cur, PyNone) EXCEPT !.hdr = cur],
              msg |-> "set as header", error |-> "none", saves |-> TRUE]

\* The test that keeps the toggle command off the header of its axis.
IsHeaderForToggle(leaf, parent, ax, num) ==
    num = CfgGet(leaf, parent, ax, ToggleHeaderKey(ax))

\* script_toggleMarkedRow / script_toggleMarkedColumn on the current number
ToggleMarked(leaf, parent, ax, num) ==
    IF num = 0
    THEN [leaf |-> leaf, msg |-> "Not in a table cell", error |-> "none", saves |-> FALSE]
    ELSE IF IsHeaderForToggle(leaf, parent, ax, num)
    THEN [leaf |-> leaf, msg |-> "already marked as header", error |-> "none",
          saves |-> FALSE]
    ELSE IF MarkedHas(leaf, parent, num)
    THEN IF Truthy(MarkedGet(leaf, parent, num))
         THEN [leaf |-> MarkedSet(leaf, num, PyFalse), msg |-> "marked without announce",
               error |-> "none", saves |-> TRUE]
         ELSE IF leaf.marks[num] = Missing
         THEN [leaf |-> leaf, msg |-> "none", error |-> "KeyError", saves |-> FALSE]
         ELSE [leaf |-> [leaf EXCEPT !.marks[num] = Missing], msg |-> "unmarked",
               error |-> "none", saves |-> TRUE]
    ELSE [leaf |-> MarkedSet(leaf, num, PyTrue), msg |-> "marked with announce",
          error |-> "none", saves |-> TRUE]

\* _executeScript: the count of successive executions of the same script
NextCount(script) ==
    IF lastScript.name = script
    THEN IF lastScript.count < MaxRepeat THEN lastScript.count + 1 ELSE MaxRepeat
    ELSE 0

NoPresses == [script |-> "none", num |-> 0, n |-> 0, hdr0 |-> PyNone, marks0 |-> NoMarks,
          count0 |-> 0]

\* The presses under observation: the same command pressed n times in a row
\* on the same number, after the header hdr0 and the marks marks0 as read
\* through the config, the first press having the repeat count count0. Any
\* press may be taken as the first.
Observe(script, num) ==
    \/ presses' = [script |-> script, num |-> num, n |-> 1,
               hdr0 |-> CfgGet(tcfg, tparent, axis, HeaderKey(axis)),
               marks0 |-> MarkedView(tcfg, tparent), count0 |-> NextCount(script)]
    \/ /\ presses.script = script
       /\ presses.num = num
       /\ lastScript.name = script
       /\ presses.n < 3
       /\ presses' = [presses EXCEPT !.n = @ + 1]

\* A table is entered: its config is a fresh layer over the "" config.
EnterTable ==
    /\ mgrPc = "idle"
    /\ mgrPc' = "table"
    /\ axis' \in Axes
    /\ tparent' \in ParentConfigs
    /\ tcfg' = EmptyLayer
    /\ curNum' \in Nums
    /\ UNCHANGED <<lastScript, report, unsaved, presses>>
    /\ UNCHANGED NotManager

\* Any other command runs: a move to another cell, or out of the cells.
OtherScript ==
    /\ mgrPc = "table"
    /\ curNum' \in 0..MaxNum
    /\ lastScript' = [name |-> "other", count |-> NextCount("other")]
    /\ report' = [msg |-> "none", error |-> "none"]
    /\ presses' = NoPresses
    /\ UNCHANGED <<mgrPc, axis, tparent, tcfg, unsaved>>
    /\ UNCHANGED NotManager

\* A command of the two kinds has run: its result is taken, and its save()
\* either writes the leaf or logs the failure.
Executed(script, res) ==
    /\ tcfg' = res.leaf
    /\ report' = [msg |-> res.msg, error |-> res.error]
    /\ lastScript' = [name |-> script, count |-> NextCount(script)]
    /\ IF res.saves THEN unsaved' \in BOOLEAN ELSE unsaved' = (unsaved \/ tcfg' # tcfg)
    /\ Observe(script, curNum)
    /\ UNCHANGED <<mgrPc, axis, tparent, curNum>>
    /\ UNCHANGED NotManager

script_setColumnHeader ==
    /\ mgrPc = "table"
    /\ axis = "row"
    /\ Executed("setColumnHeader",
                SetHeader(tcfg, tparent, axis, curNum, NextCount("setColumnHeader")))

script_setRowHeader ==
    /\ mgrPc = "table"
    /\ axis = "column"
    /\ Executed("setRowHeader",
                SetHeader(tcfg, tparent, axis, curNum, NextCount("setRowHeader")))

script_toggleMarkedRow ==
    /\ mgrPc = "table"
    /\ axis = "row"
    /\ Executed("toggleMarkedRow", ToggleMarked(tcfg, tparent, axis, curNum))

script_toggleMarkedColumn ==
    /\ mgrPc = "table"
    /\ axis = "column"
    /\ Executed("toggleMarkedColumn", ToggleMarked(tcfg, tparent, axis, curNum))

ManagerNext ==
    \/ EnterTable
    \/ OtherScript
    \/ script_setColumnHeader
    \/ script_setRowHeader
    \/ script_toggleMarkedRow
    \/ script_toggleMarkedColumn

\* =====================================================================
\* TableManager: moving the current cell, and the row filter
\* =====================================================================

\* The table has MaxRows rows of two columns.
MaxRows == 3

Rows == 1..MaxRows

Cols == {1, 2}

\* The text of a cell is one letter; a row may have no cell in its second
\* column ("none").
RowShapes == {<<t1, t2>> : t1 \in {"a", "A", "b"}, t2 \in {"none", "a"}}

\* The filters: none (""), or the text "a", case sensitive or not.
Filters == {[text |-> "", caseSensitive |-> FALSE],
            [text |-> "a", caseSensitive |-> FALSE],
            [text |-> "a", caseSensitive |-> TRUE]}

Managers == {"TableManager", "DocumentTableManager"}

casefoldMutant(text) == text

casefold(text) == IF text = "A" THEN "a" ELSE text

\* Cell.honorsFilter: the needle is found in the cell's text, both casefolded
\* unless the filter is case sensitive. On one-letter texts `in` is equality.
CellHonorsFilter(cellText, text, caseSensitive) ==
    \/ text = ""
    \/ IF caseSensitive THEN cellText = text ELSE casefold(cellText) = casefold(text)

\* Row.honorsFilter: any cell of the row honors it
RowHonorsFilter(r) ==
    \E c \in Cols : /\ cells[r][c] # "none"
                    /\ CellHonorsFilter(cells[r][c], filterText, filterCaseSensitive)

\* Row._getCell(columnNumber)
RowGetCellMutant(r, c) == TRUE

RowGetCell(r, c) == c \in Cols /\ cells[r][c] # "none"

\* FakeTableManager._getRow: the row is there and has a cell at the current
\* column
GetRow(rowNumber) ==
    /\ rowNumber \in Rows
    /\ RowGetCell(rowNumber, currentColumnNumber)

\* TableManager._getCell
GetCell(rowNumber, columnNumber) ==
    GetRow(rowNumber) /\ RowGetCell(rowNumber, columnNumber)

\* _reportCellChange reads attributes of the current cell before testing it
ReportCellChange ==
    IF GetCell(currentRowNumber, currentColumnNumber) THEN "none" ELSE "AttributeError"

NoMatchMessage(direction) ==
    IF direction = 1 THEN "No next matching row" ELSE "No previous matching row"

\* What a move gives: whether it returned True, the row and column it set,
\* the last message it spoke and the exception it raised.
Moved(row, col) ==
    [ok |-> TRUE, row |-> row, col |-> col, msg |-> "none", error |-> "none"]

Failed(message, error) ==
    [ok |-> FALSE, row |-> currentRowNumber, col |-> currentColumnNumber,
     msg |-> message, error |-> error]

\* TableManager._moveToColumn(columnNumber, notifyOnFailure=notify)
MoveToColumn(columnNumber, notify) ==
    IF ~GetCell(currentRowNumber, columnNumber)
    THEN Failed(IF notify THEN "Edge of table" ELSE "none", ReportCellChange)
    ELSE Moved(currentRowNumber, columnNumber)

\* TableManager._moveToRow(rowNumber, notifyOnFailure=notify)
MoveToRow(rowNumber, notify) ==
    IF ~GetRow(rowNumber)
    THEN Failed(IF notify THEN "Edge of table" ELSE "none", "none")
    ELSE Moved(rowNumber, currentColumnNumber)

\* TableManager._tableMovementScriptHelper(AXIS_ROWS, direction): the loop,
\* from the row fromNum, having skipped rows (filtered) or not. Rows span one
\* row each.
RECURSIVE HelperLoop(_, _, _)
HelperLoop(fromNum, direction, filtered) ==
    LET toNum == fromNum + direction
    IN  IF ~GetRow(toNum)
        THEN Failed(IF filtered THEN NoMatchMessage(direction) ELSE "Edge of table",
                    ReportCellChange)
        ELSE IF filterText # "" /\ ~RowHonorsFilter(toNum)
        THEN HelperLoop(toNum, direction, TRUE)
        ELSE Moved(toNum, currentColumnNumber)

\* info.find(filterText, reverse, caseSensitive) until the match is in
\* another row of the table: the number of that row, 0 when the text is not
\* found.
Find(direction) ==
    LET found == {r \in Rows : /\ (r - currentRowNumber) * direction > 0
                               /\ RowHonorsFilter(r)}
    IN  IF found = {} THEN 0
        ELSE CHOOSE r \in found :
                 \A q \in found : (q - currentRowNumber) * direction
                                  >= (r - currentRowNumber) * direction

\* DocumentTableManager._tableMovementScriptHelper(AXIS_ROWS, direction)
DocumentHelper(direction) ==
    IF filterText = ""
    THEN HelperLoop(currentRowNumber, direction, FALSE)
    ELSE IF Find(direction) # 0
    THEN MoveToRow(Find(direction), TRUE)
    ELSE Failed(NoMatchMessage(direction), ReportCellChange)

TableMovementScriptHelper(direction) ==
    IF manager = "DocumentTableManager"
    THEN DocumentHelper(direction)
    ELSE HelperLoop(currentRowNumber, direction, FALSE)

NoMove == [op |-> "none", n |-> 0, fromRow |-> 0, fromCol |-> 0, ok |-> FALSE,
           msg |-> "none", error |-> "none"]

\* The move is done: the current numbers are what it set, and it is kept
\* with the numbers it started from.
Done(op, n, res) ==
    /\ currentRowNumber' = res.row
    /\ currentColumnNumber' = res.col
    /\ lastMove' = [op |-> op, n |-> n, fromRow |-> currentRowNumber,
                    fromCol |-> currentColumnNumber, ok |-> res.ok, msg |-> res.msg,
                    error |-> res.error]
    /\ navPc' = "moved"
    /\ UNCHANGED <<manager, cells, filterText, filterCaseSensitive>>
    /\ UNCHANGED NotNav

\* A table gets the focus in one of its cells; a filter is on only when
\* some row honors it (_onTableFilterChange drops it otherwise).
FocusTable ==
    /\ navPc = "idle"
    /\ navPc' = "table"
    /\ manager' \in Managers
    /\ cells' \in [Rows -> RowShapes]
    /\ currentRowNumber' \in Rows
    /\ currentColumnNumber' \in Cols
    /\ cells'[currentRowNumber'][currentColumnNumber'] # "none"
    /\ \E f \in Filters :
          /\ filterText' = f.text
          /\ filterCaseSensitive' = f.caseSensitive
    /\ filterText' # "" =>
          \E r \in Rows : \E c \in Cols :
              /\ cells'[r][c] # "none"
              /\ CellHonorsFilter(cells'[r][c], filterText', filterCaseSensitive')
    /\ UNCHANGED lastMove
    /\ UNCHANGED NotNav

moveToColumn ==
    /\ navPc = "table"
    /\ \E n \in 0..3 : \E notify \in BOOLEAN :
          Done("moveToColumn", n, MoveToColumn(n, notify))

moveToRow ==
    /\ navPc = "table"
    /\ \E n \in 0..(MaxRows + 1) : \E notify \in BOOLEAN :
          Done("moveToRow", n, MoveToRow(n, notify))

script_moveToNextRow ==
    /\ navPc = "table"
    /\ Done("next", 1, TableMovementScriptHelper(1))

script_moveToPreviousRow ==
    /\ navPc = "table"
    /\ Done("previous", -1, TableMovementScriptHelper(-1))

NavNext ==
    \/ FocusTable
    \/ moveToColumn
    \/ moveToRow
    \/ script_moveToNextRow
    \/ script_moveToPreviousRow

\* =====================================================================
\* TableManager._tableMovementScriptHelper: one step along an axis
\* =====================================================================

\* The numbers the objects of the axis (the rows of the table, or the cells
\* of the current row) can have.
MaxPos == 3

LineNumbers == 1..MaxPos

\* The objects, 0 standing for None.
Objs == {1, 2}

\* What the objects say of themselves (rowNumber / columnNumber, rowSpan /
\* columnSpan) and what the lookup (_getRow / Row._getCell) gives for a
\* number. After an update of the document an object can say another number
\* than the one it was found under.
Lines ==
    [lookup : [LineNumbers -> Objs \cup {0}],
     num : [Objs -> LineNumbers],
     span : [Objs -> 0..2]]

\* getRowSpanSafe / getColumnSpanSafe: a span under 1 counts for 1
getSpanSafe(obj) == IF line.span[obj] < 1 THEN 1 ELSE line.span[obj]

getNum(obj) == line.num[obj]

getObj(num) == IF num \in LineNumbers THEN line.lookup[num] ELSE 0

\* DIRECTION_PREVIOUS: the number probed, going down while the lookup gives
\* the object the step starts from
RECURSIVE PreviousProbe(_)
PreviousProbe(toNum) ==
    IF getObj(toNum) = stepFrom /\ toNum > 1 THEN PreviousProbe(toNum - 1) ELSE toNum

Probe(direction) ==
    IF direction = "next"
    THEN getNum(stepFrom) + getSpanSafe(stepFrom)
    ELSE PreviousProbe(getNum(stepFrom) - 1)

\* `if toNum == fromNum`: the object found has the number of the start
SameNumberMutant(toObj) == FALSE

SameNumber(toObj) == getNum(toObj) = getNum(stepFrom)

\* The helper without a filter: the object probed (toObj), whether it
\* returned True, the number it set and the message it spoke.
Helper(direction, notify) ==
    LET toObj == getObj(Probe(direction))
        edge == IF notify THEN "Edge of table" ELSE "none"
    IN  IF toObj = 0
        THEN [toObj |-> toObj, ok |-> FALSE, number |-> stepNumber, msg |-> edge]
        ELSE IF SameNumber(toObj)
        THEN [toObj |-> toObj, ok |-> FALSE, number |-> stepNumber, msg |-> edge]
        ELSE [toObj |-> toObj, ok |-> TRUE, number |-> getNum(toObj), msg |-> "none"]

NoStep == [direction |-> "none", notify |-> FALSE, toObj |-> 0, ok |-> FALSE,
           fromNumber |-> 0, msg |-> "none"]

\* The current object is the one with the focus, which has the current
\* number, or the one the lookup gives for the current number.
EnterLine ==
    /\ stepPc = "idle"
    /\ stepPc' = "ready"
    /\ line' \in Lines
    /\ stepNumber' \in LineNumbers
    /\ stepFrom' \in Objs
    /\ \/ line'.num[stepFrom'] = stepNumber'
       \/ line'.lookup[stepNumber'] = stepFrom'
    /\ UNCHANGED stepResult
    /\ UNCHANGED NotStep

Step(direction, notify) ==
    LET res == Helper(direction, notify)
    IN  /\ stepPc' = "stepped"
        /\ stepNumber' = res.number
        /\ stepResult' = [direction |-> direction, notify |-> notify,
                          toObj |-> res.toObj, ok |-> res.ok,
                          fromNumber |-> stepNumber, msg |-> res.msg]
        /\ UNCHANGED <<line, stepFrom>>
        /\ UNCHANGED NotStep

\* script_moveToNextColumn, script_moveToNextRow without a filter
stepNext ==
    /\ stepPc = "ready"
    /\ Step("next", TRUE)

\* script_moveToPreviousColumn, script_moveToPreviousRow without a filter
stepPrevious ==
    /\ stepPc = "ready"
    /\ Step("previous", TRUE)

\* script_moveToFirstDataCell steps without notifying
stepQuiet ==
    /\ stepPc = "ready"
    /\ Step("next", FALSE)

StepNext ==
    \/ EnterLine
    \/ stepNext
    \/ stepPrevious
    \/ stepQuiet

\* =====================================================================
\* TextInfoDrivenFakeRow._getCell: the cells of a row, through its cache
\* =====================================================================

\* The table has MaxCol columns.
MaxCol == 3

Columns == 1..MaxCol

CellSpecs == {c \in [num : Columns, span : 1..MaxCol] : c.num + c.span - 1 <= MaxCol}

\* What the document can hold for a row: one or two cells, in column order,
\* that do not overlap.
RowSources ==
    {<<c>> : c \in CellSpecs}
    \cup {s \in {<<c, d>> : c \in CellSpecs, d \in CellSpecs} :
              s[2].num >= s[1].num + s[1].span}

\* A cell object is known by the place of its text in the row: what it says
\* of itself (columnNumber, columnSpan) is what the document holds there now.
columnNumber(obj) == rowSrc[obj].num

columnSpan(obj) == rowSrc[obj].span

NoCache == [old |-> 0, cells |-> {}]

NoCell == [col |-> 0, obj |-> 0, served |-> "none"]

\* colSpans[colNum] of the cache
CachedSpan(key) == (CHOOSE e \in rowCache.cells : e.key = key).span

\* The cell last returned, the key of the cache entry
OldCell == (CHOOSE e \in rowCache.cells : e.key = rowCache.old).obj

\* `oldColNum <= oldCell.columnNumber < oldColNum + colSpans[oldColNum]`
OldCellInPlace ==
    /\ rowCache.old <= columnNumber(OldCell)
    /\ columnNumber(OldCell) < rowCache.old + CachedSpan(rowCache.old)

\* The cached cells that cover the column by the spans of the cache
Covering(col) == {e \in rowCache.cells : e.key <= col /\ col < e.key + e.span}

\* _iterCells(refresh=True): a cell for each cell of the document, under its
\* column number
Fresh == {[key |-> rowSrc[i].num, span |-> rowSrc[i].span, obj |-> i] :
              i \in 1..Len(rowSrc)}

\* The refresh: the whole row is cached again and the cell covering the
\* column returned; nothing is cached when there is none.
Refreshed(col) ==
    LET found == {e \in Fresh : e.key <= col /\ col < e.key + e.span}
    IN  IF found = {}
        THEN [cache |-> NoCache, obj |-> 0, served |-> "document"]
        ELSE LET e == CHOOSE e \in found : TRUE
             IN  [cache |-> [old |-> e.key, cells |-> Fresh], obj |-> e.obj,
                  served |-> "document"]

\* TextInfoDrivenFakeRow._getCell(columnNumber)
GetCellCached(col) ==
    IF rowCache.old = 0
    THEN Refreshed(col)
    ELSE IF ~OldCellInPlace
    THEN Refreshed(col)
    ELSE IF rowCache.old <= col /\ col < rowCache.old + CachedSpan(rowCache.old)
    THEN [cache |-> rowCache, obj |-> OldCell, served |-> "last"]
    ELSE IF Covering(col) # {}
    THEN LET e == CHOOSE e \in Covering(col) : TRUE
         IN  [cache |-> [old |-> e.key, cells |-> rowCache.cells], obj |-> e.obj,
              served |-> "cache"]
    ELSE Refreshed(col)

\* The row is created for what the document holds.
CreateRow ==
    /\ rowPc = "idle"
    /\ rowPc' = "row"
    /\ rowSrc' \in RowSources
    /\ UNCHANGED <<rowCache, cellResult>>
    /\ UNCHANGED NotRow

getCell ==
    /\ rowPc = "row"
    /\ \E col \in Columns :
          LET res == GetCellCached(col)
          IN  /\ rowCache' = res.cache
              /\ cellResult' = [col |-> col, obj |-> res.obj, served |-> res.served]
    /\ UNCHANGED <<rowPc, rowSrc>>
    /\ UNCHANGED NotRow

\* The document is updated: the cells of the row get other columns or spans.
documentUpdate ==
    /\ rowPc = "row"
    /\ rowSrc' \in {s \in RowSources : Len(s) = Len(rowSrc) /\ s # rowSrc}
    /\ cellResult' = NoCell
    /\ UNCHANGED <<rowPc, rowCache>>
    /\ UNCHANGED NotRow

\* The cell last returned is let go: the weak dictionary loses its entry.
releaseCell ==
    /\ rowPc = "row"
    /\ rowCache # NoCache
    /\ rowCache' = NoCache
    /\ cellResult' = NoCell
    /\ UNCHANGED <<rowPc, rowSrc>>
    /\ UNCHANGED NotRow

RowNext ==
    \/ CreateRow
    \/ getCell
    \/ documentUpdate
    \/ releaseCell

\* =====================================================================
\* FakeTableManager._getRow: the rows of a table, through their cache
\* =====================================================================

\* The table has at most MaxRowCount rows.
MaxRowCount == 2

\* The numbers a row is asked by: those of the table, 0 and one beyond.
RowNumbers == 0..(MaxRowCount + 1)

TableClasses == {"FakeTableManager", "DocumentTableManager"}

\* FakeTableManager._canCreateRow: 1 <= rowNumber <= self.rowCount;
\* DocumentTableManager._canCreateRow: True
canCreateRowMutant(rowNumber) == TRUE

canCreateRow(rowNumber) ==
    IF tableClass = "DocumentTableManager" THEN TRUE
    ELSE 1 <= rowNumber /\ rowNumber <= rowCount

\* A row created by _createRow(rowNumber=n) keeps n as its rowNumber and has
\* no rowSpan of its own, which getRowSpanSafe takes for 1.
rowNumberOf(row) == row

rowSpanSafe(row) == 1

\* `rowNumber <= row.rowNumber < rowNumber + getRowSpanSafe(row)`
RowInPlace(rowNumber, row) ==
    rowNumber <= rowNumberOf(row) /\ rowNumberOf(row) < rowNumber + rowSpanSafe(row)

\* Row._currentCell: None while the current column number is None, else the
\* cell of the row at the current column
RowCurrentCell(row) == columnSet /\ row \in rowCells

NoRow == [n |-> PyNone, cached |-> FALSE, row |-> PyNone]

\* FakeTableManager._getRow(rowNumber): the row returned (PyNone for None)
\* and the cache it leaves
GetRowCached(rowNumber) ==
    LET cached == IF rowNumber \in rowsCached /\ RowInPlace(rowNumber, rowNumber)
                  THEN rowNumber ELSE PyNone
        row == IF cached = PyNone /\ canCreateRow(rowNumber) THEN rowNumber ELSE cached
        stored == IF row # PyNone THEN rowsCached \cup {rowNumber} ELSE rowsCached
    IN  IF row = PyNone \/ ~(RowCurrentCell(row) \/ ~columnSet)
        THEN [row |-> PyNone, rows |-> stored \ {rowNumber}]
        ELSE [row |-> row, rows |-> stored]

\* The rows that may have a cell at the current column: those in
\* [1, rowCount] for static data; a document, whose row count is not relied
\* upon, may have cells in a row beyond it.
CellRows(class, count) ==
    IF class = "DocumentTableManager" THEN 1..(MaxRowCount + 1) ELSE 1..count

CreateTable ==
    /\ rowsPc = "idle"
    /\ rowsPc' = "table"
    /\ tableClass' \in TableClasses
    /\ rowCount' \in 0..MaxRowCount
    /\ rowCells' \in SUBSET CellRows(tableClass', rowCount')
    /\ columnSet' \in BOOLEAN
    /\ UNCHANGED <<rowsCached, rowResult>>
    /\ UNCHANGED NotRows

getRow ==
    /\ rowsPc = "table"
    /\ \E n \in RowNumbers :
          LET res == GetRowCached(n)
          IN  /\ rowsCached' = res.rows
              /\ rowResult' = [n |-> n, cached |-> n \in rowsCached, row |-> res.row]
    /\ UNCHANGED <<rowsPc, tableClass, rowCount, rowCells, columnSet>>
    /\ UNCHANGED NotRows

\* The document is updated: it has other rows, with other cells.
tableUpdate ==
    /\ rowsPc = "table"
    /\ tableClass = "DocumentTableManager"
    /\ rowCount' \in 0..MaxRowCount
    /\ rowCells' \in SUBSET CellRows(tableClass, rowCount')
    /\ <<rowCount', rowCells'>> # <<rowCount, rowCells>>
    /\ rowResult' = NoRow
    /\ UNCHANGED <<rowsPc, tableClass, columnSet, rowsCached>>
    /\ UNCHANGED NotRows

\* The current cell is found: the current column number is set.
setCurrentColumn ==
    /\ rowsPc = "table"
    /\ ~columnSet
    /\ columnSet' = TRUE
    /\ rowResult' = NoRow
    /\ UNCHANGED <<rowsPc, tableClass, rowCount, rowCells, rowsCached>>
    /\ UNCHANGED NotRows

\* A row nothing refers to any more leaves the weak dictionary.
releaseRow ==
    /\ rowsPc = "table"
    /\ \E n \in rowsCached : rowsCached' = rowsCached \ {n}
    /\ rowResult' = NoRow
    /\ UNCHANGED <<rowsPc, tableClass, rowCount, rowCells, columnSet>>
    /\ UNCHANGED NotRows

RowsNext ==
    \/ CreateTable
    \/ getRow
    \/ tableUpdate
    \/ setCurrentColumn
    \/ releaseRow

\* =====================================================================
\* TableManager._firstDataCell and Cell.role
\* =====================================================================

\* The table has at most MaxSide rows and MaxSide columns.
MaxSide == 2

\* The header cells the document itself declares: none, those of the first
\* row (column headers), those of the first column (row headers), or both.
DocumentHeaders == {"none", "firstRow", "firstColumn", "both"}

TableShapes ==
    [rowCount : 1..MaxSide, columnCount : 1..MaxSide, headers : DocumentHeaders]

\* TableConfig.DEFAULTS
DefaultHeaderCfg ==
    [columnHeaderRowNumber |-> PyNone, rowHeaderColumnNumber |-> PyNone,
     firstDataRowNumber |-> PyNone, firstDataColumnNumber |-> PyNone]

\* The configurations of a table: a header is unset (None), disabled (False)
\* or the number of a row or column; a first data row or column is unset or
\* a number.
HeaderCfgs(shape) ==
    [columnHeaderRowNumber : {PyNone, PyFalse} \cup 1..shape.rowCount,
     rowHeaderColumnNumber : {PyNone, PyFalse} \cup 1..shape.columnCount,
     firstDataRowNumber : {PyNone} \cup 1..shape.rowCount,
     firstDataColumnNumber : {PyNone} \cup 1..shape.columnCount]

NoDataCell == <<0, 0>>

\* The truth value of a configured number: None and False are false.
PyBool(value) == value # PyNone /\ value # PyFalse

\* Cell.getRole(): the role of the cell in the document
getRole(rowNum, colNum) ==
    IF rowNum = 1 /\ tableShape.headers \in {"firstRow", "both"}
    THEN "ROLE_TABLECOLUMNHEADER"
    ELSE IF colNum = 1 /\ tableShape.headers \in {"firstColumn", "both"}
    THEN "ROLE_TABLEROWHEADER"
    ELSE "ROLE_TABLECELL"

\* Cell._get_role
roleMutant(rowNum, colNum) == getRole(rowNum, colNum)

role(rowNum, colNum) ==
    LET colHeaRowNum == headerCfg.columnHeaderRowNumber
        rowHeaColNum == headerCfg.rowHeaderColumnNumber
    IN  IF rowNum = colHeaRowNum THEN "ROLE_TABLEROWHEADER"
        ELSE IF colNum = rowHeaColNum THEN "ROLE_TABLECOLUMNHEADER"
        ELSE IF /\ PyBool(colHeaRowNum) /\ rowNum # colHeaRowNum
                /\ PyBool(rowHeaColNum) /\ colNum # rowHeaColNum
        THEN "ROLE_TABLECELL"
        ELSE getRole(rowNum, colNum)

\* rowNums and colNums of _get__firstDataCell
FirstRowNums ==
    IF PyBool(headerCfg.firstDataRowNumber) THEN {headerCfg.firstDataRowNumber}
    ELSE 1..tableShape.rowCount

FirstColNums ==
    IF PyBool(headerCfg.firstDataColumnNumber) THEN {headerCfg.firstDataColumnNumber}
    ELSE 1..tableShape.columnCount

\* The cells the loops of _get__firstDataCell `continue` on
SkippedAsHeader(rowNum, colNum) ==
    \/ Cardinality(FirstRowNums) > 1 /\ role(rowNum, colNum) = "ROLE_TABLEROWHEADER"
    \/ Cardinality(FirstColNums) > 1 /\ role(rowNum, colNum) = "ROLE_TABLECOLUMNHEADER"

\* rowNum, colNum comes before the other cell in the nested loops
LoopsBefore(rowNum, colNum, otherRow, otherCol) ==
    rowNum < otherRow \/ (rowNum = otherRow /\ colNum < otherCol)

\* TableManager._get__firstDataCell, every cell of the table being there
FirstDataCellOf ==
    LET firstRowNum == headerCfg.firstDataRowNumber
        firstColNum == headerCfg.firstDataColumnNumber
        kept == {rc \in FirstRowNums \X FirstColNums : ~SkippedAsHeader(rc[1], rc[2])}
    IN  IF firstRowNum # PyNone /\ firstColNum # PyNone
        THEN <<firstRowNum, firstColNum>>
        ELSE IF kept # {}
        THEN CHOOSE rc \in kept :
                 \A other \in kept \ {rc} : LoopsBefore(rc[1], rc[2], other[1], other[2])
        ELSE <<1, 1>>

FocusGrid ==
    /\ firstPc = "idle"
    /\ firstPc' = "table"
    /\ tableShape' \in TableShapes
    /\ headerCfg' \in HeaderCfgs(tableShape')
    /\ UNCHANGED firstDataCell
    /\ UNCHANGED NotFirst

get_firstDataCell ==
    /\ firstPc = "table"
    /\ firstPc' = "got"
    /\ firstDataCell' = FirstDataCellOf
    /\ UNCHANGED <<tableShape, headerCfg>>
    /\ UNCHANGED NotFirst

FirstNext ==
    \/ FocusGrid
    \/ get_firstDataCell

\* =====================================================================
\* TableManager: the navigation commands and the current coordinates
\* =====================================================================

\* The cells of a table lie in the rows and columns 1..MaxSide; each spans
\* one row and one column.
GridCells == (1..MaxSide) \X (1..MaxSide)

\* The highest of a set of positive numbers, 0 when there is none
Highest(nums) == IF nums = {} THEN 0 ELSE CHOOSE n \in nums : \A m \in nums : m <= n

Lowest(nums) == CHOOSE n \in nums : \A m \in nums : n <= m

\* The tables: static data has as many rows as its cells say; the row count
\* a document reports is not relied upon.
PosTables ==
    {t \in [class : TableClasses, rowCount : 0..MaxSide, cells : SUBSET GridCells] :
        t.class = "FakeTableManager" => t.rowCount = Highest({rc[1] : rc \in t.cells})}

\* TableManager.initOverlayClass: both numbers are None
NoPos == [rowNumber |-> PyNone, columnNumber |-> PyNone]

\* The positions a table manager is created at (setPosition): the numbers
\* found at the caret, either of which the document may lack.
StartPositions(t) ==
    {NoPos}
        \cup {[rowNumber |-> rc[1], columnNumber |-> rc[2]] : rc \in t.cells}
        \cup {[rowNumber |-> rc[1], columnNumber |-> PyNone] : rc \in t.cells}

columnCount == Highest({rc[2] : rc \in posTable.cells})

\* _canCreateRow of the class of the table
PosCanCreateRow(rowNumber) ==
    IF posTable.class = "DocumentTableManager" THEN TRUE
    ELSE 1 <= rowNumber /\ rowNumber <= posTable.rowCount

\* FakeTableManager._getRow(rowNumber) returns a row, the current column
\* number being colNum
HasRow(rowNumber, colNum) ==
    /\ PosCanCreateRow(rowNumber)
    /\ (colNum = PyNone \/ <<rowNumber, colNum>> \in posTable.cells)

\* Row._getCell(columnNumber) of the row rowNumber returns a cell
RowHasCell(rowNumber, colNumber) == <<rowNumber, colNumber>> \in posTable.cells

\* TableManager._getCell(rowNumber, columnNumber) returns a cell
PosHasCell(rowNumber, colNumber, colNum) ==
    HasRow(rowNumber, colNum) /\ RowHasCell(rowNumber, colNumber)

\* TableManager._firstDataCell with the default configuration: the first
\* cell the nested loops find, else _getCell(1, 1); NoDataCell for None
PosFirstDataCell(colNum) ==
    LET found == {rc \in (1..posTable.rowCount) \X (1..columnCount) :
                      PosHasCell(rc[1], rc[2], colNum)}
    IN  IF found # {}
        THEN CHOOSE rc \in found :
                 \A other \in found \ {rc} : LoopsBefore(rc[1], rc[2], other[1], other[2])
        ELSE IF PosHasCell(1, 1, colNum) THEN <<1, 1>>
        ELSE NoDataCell

\* TableManager._get__currentCell at the position pos: the cell returned
\* (NoDataCell for None) and the position it leaves
CurrentCellAt(pos) ==
    IF pos.rowNumber = PyNone \/ pos.columnNumber = PyNone
    THEN LET cell == PosFirstDataCell(pos.columnNumber)
         IN  [cell |-> cell,
              pos |-> IF cell # NoDataCell
                      THEN [rowNumber |-> cell[1], columnNumber |-> cell[2]]
                      ELSE pos]
    ELSE [cell |-> IF PosHasCell(pos.rowNumber, pos.columnNumber, pos.columnNumber)
                   THEN <<pos.rowNumber, pos.columnNumber>> ELSE NoDataCell,
          pos |-> pos]

\* TableManager._get__currentRow at the position pos: the number of the row
\* returned, PyNone for None
CurrentRowAt(pos) ==
    IF pos.rowNumber = PyNone
    THEN LET cell == PosFirstDataCell(pos.columnNumber)
         IN  IF cell # NoDataCell THEN cell[1] ELSE PyNone
    ELSE IF HasRow(pos.rowNumber, pos.columnNumber) THEN pos.rowNumber ELSE PyNone

\* TableManager._moveToColumn(columnNumber) and _moveToRow(rowNumber) at the
\* position pos, with no cell or row given: the position they leave
MoveToColumnAt(pos, colNumber) ==
    IF PosHasCell(pos.rowNumber, colNumber, pos.columnNumber)
    THEN [pos EXCEPT !.columnNumber = colNumber]
    ELSE pos

MoveToRowAt(pos, rowNumber) ==
    IF HasRow(rowNumber, pos.columnNumber)
    THEN [pos EXCEPT !.rowNumber = rowNumber]
    ELSE pos

\* TableManager._tableMovementScriptHelper, no filter being set and every
\* span being 1: the position it leaves
PosHelper(pos, ax, delta) ==
    IF ax = "row"
    THEN LET fromNum == CurrentRowAt(pos)
             toNum == fromNum + delta
         IN  IF fromNum # PyNone /\ HasRow(toNum, pos.columnNumber)
             THEN [pos EXCEPT !.rowNumber = toNum]
             ELSE pos
    ELSE LET cur == CurrentCellAt(pos)
             toNum == cur.cell[2] + delta
         IN  IF cur.cell # NoDataCell /\ RowHasCell(cur.cell[1], toNum)
             THEN [cur.pos EXCEPT !.columnNumber = toNum]
             ELSE cur.pos

\* script_moveToFirstColumn: the first data column if it lies before the
\* current one and can be reached, else the first of range(curNum) that can
FirstColumnFrom(pos) ==
    LET cur == CurrentCellAt(pos)
        p == cur.pos
        firstCell == PosFirstDataCell(p.columnNumber)
        reached == {n \in 0..(p.columnNumber - 1) :
                       PosHasCell(p.rowNumber, n, p.columnNumber)}
    IN  IF cur.cell = NoDataCell THEN p
        ELSE IF /\ firstCell # NoDataCell
                /\ firstCell[2] < p.columnNumber
                /\ PosHasCell(p.rowNumber, firstCell[2], p.columnNumber)
        THEN [p EXCEPT !.columnNumber = firstCell[2]]
        ELSE IF reached # {} THEN [p EXCEPT !.columnNumber = Lowest(reached)]
        ELSE p

\* script_moveToFirstRow
FirstRowFrom(pos) ==
    LET cur == CurrentCellAt(pos)
        p == cur.pos
        firstCell == PosFirstDataCell(p.columnNumber)
        reached == {n \in 0..(p.rowNumber - 1) : HasRow(n, p.columnNumber)}
    IN  IF cur.cell = NoDataCell THEN p
        ELSE IF /\ firstCell # NoDataCell
                /\ firstCell[1] < p.rowNumber
                /\ HasRow(firstCell[1], p.columnNumber)
        THEN [p EXCEPT !.rowNumber = firstCell[1]]
        ELSE IF reached # {} THEN [p EXCEPT !.rowNumber = Lowest(reached)]
        ELSE p

\* script_moveToLastColumn: the first of range(columnCount, curNum, -1)
\* that can be reached
LastColumnFrom(pos) ==
    LET cur == CurrentCellAt(pos)
        p == cur.pos
        reached == {n \in (p.columnNumber + 1)..columnCount :
                       PosHasCell(p.rowNumber, n, p.columnNumber)}
    IN  IF cur.cell = NoDataCell \/ reached = {} THEN p
        ELSE [p EXCEPT !.columnNumber = Highest(reached)]

\* The loop of script_moveToLastRow: the row number it stops at, going
\* down from rowNumber while the row or its cell at the current column is
\* None and rowNumber > _currentRowNumber + 1
RECURSIVE LastRowLoop(_, _)
LastRowLoop(pos, rowNumber) ==
    LET row == HasRow(rowNumber, pos.columnNumber)
        cell == row /\ pos.columnNumber # PyNone /\ RowHasCell(rowNumber, pos.columnNumber)
    IN  IF ~(row /\ cell) /\ rowNumber > pos.rowNumber + 1
        THEN LastRowLoop(pos, rowNumber - 1)
        ELSE rowNumber

\* script_moveToLastRow; `self._currentRowNumber + 1` raises when the row
\* number is None and the row or the cell is
LastRowFrom(pos) ==
    LET first == posTable.rowCount
        row == HasRow(first, pos.columnNumber)
        cell == row /\ pos.columnNumber # PyNone /\ RowHasCell(first, pos.columnNumber)
    IN  IF pos.rowNumber = PyNone /\ ~(row /\ cell) THEN pos
        ELSE MoveToRowAt(pos, LastRowLoop(pos, first))

CreateManager ==
    /\ posPc = "idle"
    /\ posPc' = "table"
    /\ posTable' \in PosTables
    /\ tablePos' \in StartPositions(posTable')
    /\ UNCHANGED posScript
    /\ UNCHANGED NotPos

\* The numbers followed: None, and from 0 to one beyond the table. With the
\* current column unset a document makes a row for any number, and the
\* row commands go on below 0 and beyond the table; those steps are cut off.
Followed == {PyNone} \cup 0..(MaxSide + 1)

\* A navigation command leaves the position `to`.
Navigate(name, to) ==
    /\ posPc = "table"
    /\ to.rowNumber \in Followed
    /\ to.columnNumber \in Followed
    /\ tablePos' = to
    /\ posScript' = name
    /\ UNCHANGED <<posPc, posTable>>
    /\ UNCHANGED NotPos

\* The current cell is asked for, as the reports of a change do.
get_currentCell ==
    /\ posPc = "table"
    /\ Navigate("_currentCell", CurrentCellAt(tablePos).pos)

script_moveToFirstColumn ==
    /\ posPc = "table"
    /\ Navigate("moveToFirstColumn", FirstColumnFrom(tablePos))

script_moveToFirstRow ==
    /\ posPc = "table"
    /\ Navigate("moveToFirstRow", FirstRowFrom(tablePos))

script_moveToLastColumn ==
    /\ posPc = "table"
    /\ Navigate("moveToLastColumn", LastColumnFrom(tablePos))

script_moveToLastRow ==
    /\ posPc = "table"
    /\ Navigate("moveToLastRow", LastRowFrom(tablePos))

script_moveToNextColumn ==
    /\ posPc = "table"
    /\ Navigate("moveToNextColumn", PosHelper(tablePos, "column", 1))

script_moveToPreviousColumn ==
    /\ posPc = "table"
    /\ Navigate("moveToPreviousColumn", PosHelper(tablePos, "column", -1))

script_stepToNextRow ==
    /\ posPc = "table"
    /\ Navigate("moveToNextRow", PosHelper(tablePos, "row", 1))

script_stepToPreviousRow ==
    /\ posPc = "table"
    /\ Navigate("moveToPreviousRow", PosHelper(tablePos, "row", -1))

PosNext ==
    \/ CreateManager
    \/ get_currentCell
    \/ script_moveToFirstColumn
    \/ script_moveToFirstRow
    \/ script_moveToLastColumn
    \/ script_moveToLastRow
    \/ script_moveToNextColumn
    \/ script_moveToPreviousColumn
    \/ script_stepToNextRow
    \/ script_stepToPreviousRow

\* =====================================================================
\* RowRegion: the window shown, and the pan commands
\* =====================================================================

\* The rows shown have at most MaxPanCells cells.
MaxPanCells == 2

\* braille.handler.displaySize
PanDisplaySize == 4

\* The widths of the columns: those setColumnWidth stores (up to the
\* display size), and one beyond it (a default, or a hand-written file).
PanWidths == {0, 2, PanDisplaySize - 1, PanDisplaySize, PanDisplaySize + 1}

PanRows ==
    {r \in [widths : UNION {[1..n -> PanWidths] : n \in 1..MaxPanCells},
            sel : 1..MaxPanCells,
            scheme : {"bar", "barSpace"},
            lastLen : {2, PanDisplaySize + 2},
            resizing : BOOLEAN] :
        r.sel <= Len(r.widths)}

\* RowRegion.__init__ and BrailleBuffer.__init__
NewRegion ==
    [windowNumber |-> NoWindow, maxWindowNumber |-> NoWindow,
     windowStartPos |-> 0, cellsLen |-> 0]

NoPan == [cmd |-> "none", window |-> NoWindow, start |-> 0, scrollable |-> FALSE]

\* RowRegion.update: getWindowColumns lays the row out, looks for the window
\* of the region's cell if the window number is None (forced: the object is
\* a ResizingCell with forceFocus set), and the buffer is filled with the
\* regions of that window. The buffer keeps its windowStartPos.
regionUpdateMutant(row, region, forced) ==
    LET res == getColumns(row.widths, row.sel, row.scheme, PanDisplaySize)
        window == IF region.windowNumber = NoWindow \/ forced
                  THEN WindowOfCell(res.columns, row.sel)
                  ELSE region.windowNumber
    IN  [windowNumber |-> window,
         maxWindowNumber |-> res.winNum + 1,
         windowStartPos |-> region.windowStartPos,
         cellsLen |-> BufferLen(getWindowColumns(res.columns, window),
                                row.lastLen, row.scheme)]

regionUpdate(row, region, forced) ==
    LET res == getColumns(row.widths, row.sel, row.scheme, PanDisplaySize)
        window == IF region.windowNumber = NoWindow \/ forced
                  THEN WindowOfCell(res.columns, row.sel)
                  ELSE region.windowNumber
    IN  [windowNumber |-> window,
         maxWindowNumber |-> res.winNum,
         windowStartPos |-> region.windowStartPos,
         cellsLen |-> BufferLen(getWindowColumns(res.columns, window),
                                row.lastLen, row.scheme)]

\* RowRegionBuffer.windowEndPos, word wrap being off
windowEndPos(region) ==
    IF region.windowStartPos + PanDisplaySize >= region.cellsLen
    THEN region.cellsLen
    ELSE region.windowStartPos + PanDisplaySize

\* BrailleBuffer._nextWindow moves the window of the buffer
CanScrollForwardMutant(region) == FALSE

CanScrollForward(region) == windowEndPos(region) < region.cellsLen

\* BrailleBuffer._previousWindow moves the window of the buffer
CanScrollBack(region) == region.windowStartPos > 0

\* The setter of windowEndPos, no region being kept hard left
StartForEnd(endPos) ==
    IF endPos - PanDisplaySize <= 0 THEN 0 ELSE endPos - PanDisplaySize

\* The region of a cell, or of the cell being resized, is shown.
ShowRegion ==
    /\ panPc = "idle"
    /\ panPc' = "shown"
    /\ panRow' \in PanRows
    /\ panRegion' = regionUpdate(panRow', NewRegion, FALSE)
    /\ panLast' = [NoPan EXCEPT !.cmd = "update"]
    /\ UNCHANGED NotPan

\* RowRegion.nextLine
scrollForward ==
    /\ panPc = "shown"
    /\ panRegion' =
          IF CanScrollForward(panRegion)
          THEN [panRegion EXCEPT !.windowStartPos = windowEndPos(panRegion)]
          ELSE IF panRegion.windowNumber < panRegion.maxWindowNumber
          THEN regionUpdate(panRow,
                            [panRegion EXCEPT !.windowNumber = panRegion.windowNumber + 1],
                            FALSE)
          ELSE panRegion
    /\ panLast' = [cmd |-> "next", window |-> panRegion.windowNumber,
                   start |-> panRegion.windowStartPos,
                   scrollable |-> panRegion.windowStartPos + PanDisplaySize
                                      < panRegion.cellsLen]
    /\ UNCHANGED <<panPc, panRow>>
    /\ UNCHANGED NotPan

\* RowRegion.previousLine
scrollBack ==
    /\ panPc = "shown"
    /\ panRegion' =
          IF CanScrollBack(panRegion)
          THEN [panRegion EXCEPT !.windowStartPos = StartForEnd(panRegion.windowStartPos)]
          ELSE IF panRegion.windowNumber > 0
          THEN regionUpdate(panRow,
                            [panRegion EXCEPT !.windowNumber = panRegion.windowNumber - 1],
                            FALSE)
          ELSE panRegion
    /\ panLast' = [cmd |-> "previous", window |-> panRegion.windowNumber,
                   start |-> panRegion.windowStartPos,
                   scrollable |-> panRegion.windowStartPos > 0]
    /\ UNCHANGED <<panPc, panRow>>
    /\ UNCHANGED NotPan

\* ResizingCell.setColumnWidthBraille: the width is stored, forceFocus is
\* set and the region is updated.
resizeColumn ==
    /\ panPc = "shown"
    /\ panRow.resizing
    /\ \E width \in PanWidths :
          LET stored == IF width > PanDisplaySize THEN PanDisplaySize ELSE width
              row == [panRow EXCEPT !.widths[panRow.sel] = stored]
          IN  /\ stored # panRow.widths[panRow.sel]
              /\ panRow' = row
              /\ panRegion' = regionUpdate(row, panRegion, TRUE)
    /\ panLast' = [cmd |-> "resize", window |-> panRegion.windowNumber,
                   start |-> panRegion.windowStartPos, scrollable |-> FALSE]
    /\ UNCHANGED panPc
    /\ UNCHANGED NotPan

PanNext ==
    \/ ShowRegion
    \/ scrollForward
    \/ scrollBack
    \/ resizeColumn

\* =====================================================================
\* ResizingCell: the braille width of a column in resize mode
\* =====================================================================

\* braille.handler.displaySize: a small display, and one large enough for
\* the separator scheme with a leading space
ResizeDisplaySizes == {5, 40}

ResizeCfgs == [displaySize : ResizeDisplaySizes, style : {0, 4}, routing : BOOLEAN]

\* TableConfig.DEFAULTS["defaultColumnWidthByDisplaySize"] is {0: 10}: the
\* default width of any display size is that of the nearest size listed.
DefaultColumnWidth == 10

NoResize ==
    [cmd |-> "none", d |-> 0, visible |-> FALSE, before |-> PyNone, current |-> 0]

\* TableConfig.getColumnWidth
getColumnWidth(stored) == IF stored # PyNone THEN stored ELSE DefaultColumnWidth

\* TableConfig.setColumnWidth: the width it leaves stored
setColumnWidthMutant(stored, width, size) ==
    IF width < 0 THEN stored
    ELSE width

setColumnWidth(stored, width, size) ==
    IF width < 0 THEN stored
    ELSE IF width < size THEN width ELSE size

\* The positions of the braille buffer a routing key can stand for
\* (windowStartPos + braillePos), and the start of the region of the
\* resized column in the buffer, PyNone when the window shown has no region
\* for it.
RoutedPositions(size) == {0, 1, 3, 4, size - 1, size, size + 3, size + 4}

RegionStarts == {PyNone, 0, 3}

\* The width RowRegion.routeTo computes for a routing at the distance d from
\* the start of the region of the resized column
RoutedWidthMutant(d, scheme) == d

RoutedWidth(d, scheme) == IF scheme = "spaceBarSpace" THEN d - 1 ELSE d

\* RowRegion.routeTo, the object being a ResizingCell: TRUE when the width
\* is set (and resize mode goes on), FALSE when script_done is run
RouteSetsWidth(cfg, stored, visible, d) ==
    LET width == RoutedWidth(d, SchemeFor(cfg.style, cfg.displaySize, TRUE))
    IN  /\ cfg.routing
        /\ visible
        /\ width >= 0
        /\ getColumnWidth(stored) # width

\* A cell of a table gets the focus, under some display and settings; the
\* width stored for its column is one setColumnWidth stored, or none.
FocusCell ==
    /\ rzPc = "idle"
    /\ rzPc' = "cell"
    /\ rzCfg' \in ResizeCfgs
    /\ rzStored' \in {PyNone, 0, rzCfg'.displaySize}
    /\ UNCHANGED rzLast
    /\ UNCHANGED NotResize

\* script_modifyColumnWidthBraille: ResizingCell(cell=self).setFocus()
script_modifyColumnWidthBraille ==
    /\ rzPc = "cell"
    /\ rzPc' = "resizing"
    /\ rzLast' = [NoResize EXCEPT !.cmd = "modify", !.before = rzStored,
                                  !.current = getColumnWidth(rzStored)]
    /\ UNCHANGED <<rzCfg, rzStored>>
    /\ UNCHANGED NotResize

\* A command of resize mode leaves the width `stored` and the focus `pc`.
Resized(cmd, d, visible, stored, pc) ==
    /\ rzStored' = stored
    /\ rzPc' = pc
    /\ rzLast' = [cmd |-> cmd, d |-> d, visible |-> visible, before |-> rzStored,
                  current |-> getColumnWidth(rzStored)]
    /\ UNCHANGED rzCfg
    /\ UNCHANGED NotResize

script_expand ==
    /\ rzPc = "resizing"
    /\ LET width == getColumnWidth(rzStored) + 1
           asked == IF width > rzCfg.displaySize THEN rzCfg.displaySize ELSE width
       IN  Resized("expand", 0, TRUE,
                   setColumnWidth(rzStored, asked, rzCfg.displaySize), "resizing")

script_shrink ==
    /\ rzPc = "resizing"
    /\ LET width == getColumnWidth(rzStored) - 1
           asked == IF width < 0 THEN 0 ELSE width
       IN  Resized("shrink", 0, TRUE,
                   setColumnWidth(rzStored, asked, rzCfg.displaySize), "resizing")

\* A routing key: ResizingCell.getScript gives script_done unless routing
\* sets the width, and RowRegion.routeTo sets the width or runs script_done.
routeTo ==
    /\ rzPc = "resizing"
    /\ \E pos \in RoutedPositions(rzCfg.displaySize), start \in RegionStarts :
          LET visible == start # PyNone
              d == IF visible THEN pos - start ELSE pos
              scheme == SchemeFor(rzCfg.style, rzCfg.displaySize, TRUE)
          IN  IF RouteSetsWidth(rzCfg, rzStored, visible, d)
              THEN Resized("route", d, visible,
                           setColumnWidth(rzStored, RoutedWidth(d, scheme),
                                          rzCfg.displaySize),
                           "resizing")
              ELSE Resized("route", d, visible, rzStored, "cell")

\* Any other key: script_done
script_done ==
    /\ rzPc = "resizing"
    /\ Resized("done", 0, TRUE, rzStored, "cell")

\* TableConfig.setColumnWidth(columnNumber, width), whatever the width asked
requestWidth ==
    /\ rzPc = "cell"
    /\ \E width \in {-1, 0, 1, rzCfg.displaySize, rzCfg.displaySize + 1} :
          /\ setColumnWidth(rzStored, width, rzCfg.displaySize) # rzStored
          /\ Resized("set", width, TRUE,
                     setColumnWidth(rzStored, width, rzCfg.displaySize), "cell")

ResizeNext ==
    \/ FocusCell
    \/ script_modifyColumnWidthBraille
    \/ script_expand
    \/ script_shrink
    \/ routeTo
    \/ script_done
    \/ requestWidth

\* =====================================================================
\* TableConfig: the integer keys of a config through save and load
\* =====================================================================

\* The largest row or column number of a cell the commands work on.
MaxIntKey == 11

\* The number of saves of a session.
MaxSaves == 3

\* Row and column numbers: one digit, two digits, and negative.
KeyNumbers == {-1, 1, MaxIntKey}

\* braille.handler.displaySize
PersistDisplaySize == 40

\* The key of the table's config.
PersistKey == "T"

\* TableConfig.INT_KEY_MAPPINGS
INT_KEY_MAPPINGS ==
    {"columnWidthsByDisplaySize", "customColumnHeaders", "customRowHeaders",
     "defaultColumnWidthByDisplaySize", "markedColumnNumbers", "markedRowNumbers"}

\* The entries of a config: the integer-keyed maps and one plain entry.
ConfigNames == INT_KEY_MAPPINGS \cup {"columnHeaderRowNumber"}

\* A key of a mapping: a Python int, or a str given as its characters.
IntKey(n) == [isInt |-> TRUE, int |-> n, str |-> <<>>]

StrKey(s) == [isInt |-> FALSE, int |-> 0, str |-> s]

\* A value: an atom (None, a bool, a number, a text), a dict, or a
\* NestedChainMap; "absent" stands for an entry the config does not have.
Atom(a) == [type |-> "atom", atom |-> a, items |-> {}]

Dict(items) == [type |-> "dict", atom |-> "", items |-> items]

ChainMapOf(items) == [type |-> "NestedChainMap", atom |-> "", items |-> items]

Absent == [type |-> "absent", atom |-> "", items |-> {}]

EmptyConfig == [n \in ConfigNames |-> Absent]

IsMap(node) == node.type \in {"dict", "NestedChainMap"}

\* mapping.get(key), Absent for None
ItemAt(node, key) ==
    IF \E p \in node.items : p[1] = key
    THEN (CHOOSE p \in node.items : p[1] = key)[2]
    ELSE Absent

\* mapping[key] = value
WithItem(node, key, value) ==
    [node EXCEPT !.items = {p \in @ : p[1] # key} \cup {<<key, value>>}]

\* del mapping[key]
WithoutItem(node, key) == [node EXCEPT !.items = {p \in @ : p[1] # key}]

\* ---- str(int) and int(str) ----

DigitChars == <<"0", "1", "2", "3", "4", "5", "6", "7", "8", "9">>

RECURSIVE natStr(_)
natStr(n) ==
    IF n < 10 THEN <<DigitChars[n + 1]>>
    ELSE Append(natStr(n \div 10), DigitChars[(n % 10) + 1])

\* The key json.dump writes for an int key: str(n)
intStr(n) == IF n < 0 THEN <<"-">> \o natStr(0 - n) ELSE natStr(n)

IsDigits(s) == Len(s) > 0 /\ \A i \in 1..Len(s) : s[i] \in Range(DigitChars)

\* int(k) accepts a string of digits with an optional sign, else ValueError
IsIntLiteral(s) ==
    \/ IsDigits(s)
    \/ Len(s) > 1 /\ s[1] \in {"-", "+"} /\ IsDigits(Tail(s))

DigitValue(c) == (CHOOSE d \in 1..10 : DigitChars[d] = c) - 1

RECURSIVE natOf(_)
natOf(s) == IF Len(s) = 0 THEN 0 ELSE natOf(Front(s)) * 10 + DigitValue(Last(s))

pyInt(s) ==
    IF s[1] = "-" THEN 0 - natOf(Tail(s))
    ELSE IF s[1] = "+" THEN natOf(Tail(s))
    ELSE natOf(s)

\* ---- json.dump and json.load ----

\* json.dump writes a dict and its atoms; any other object is a TypeError
RECURSIVE Serializable(_)
Serializable(node) ==
    /\ node.type # "NestedChainMap"
    /\ \A p \in node.items : Serializable(p[2])

\* The key of a JSON object is a string: an int key is written as str(key)
JsonKey(key) == IF key.isInt THEN StrKey(intStr(key.int)) ELSE key

\* What json.load gives for what json.dump wrote
RECURSIVE Dumped(_)
Dumped(node) ==
    IF node.type = "dict"
    THEN Dict({<<JsonKey(p[1]), Dumped(p[2])>> : p \in node.items})
    ELSE node

DumpedConfig(leaf) == [n \in ConfigNames |-> Dumped(leaf[n])]

\* ---- TableConfig.restoreIntKeys ----

\* restored(obj): {int(k): restored(v) for k, v in obj.items()}
RECURSIVE restored(_)
restored(node) ==
    IF node.type # "dict" THEN node
    ELSE Dict({<<IntKey(pyInt(p[1].str)), restored(p[2])>> : p \in node.items})

\* int(k) raises ValueError for some key of the mapping or of a mapping in it
RECURSIVE RestoreRaises(_)
RestoreRaises(node) ==
    /\ node.type = "dict"
    /\ \E p \in node.items : ~IsIntLiteral(p[1].str) \/ RestoreRaises(p[2])

restoreIntKeys(data) ==
    [n \in ConfigNames |->
        IF n \in INT_KEY_MAPPINGS /\ data[n].type # "absent" THEN restored(data[n])
        ELSE data[n]]

\* ---- TableConfig.save ----

\* json.dump(configs, f) and os.replace: the record of the key holds the
\* leaf; a TypeError of the dump is logged and the data file is left as it was.
SaveLeaf(leaf) ==
    /\ psSaved' = [leaf |-> leaf, raised |-> \E n \in ConfigNames : ~Serializable(leaf[n])]
    /\ IF \A n \in ConfigNames : Serializable(leaf[n])
       THEN psFile' = [kind |-> "complete", config |-> DumpedConfig(leaf)]
       ELSE UNCHANGED psFile
    /\ psLeaf' = leaf
    /\ psSaves' = psSaves + 1
    /\ psCatalog' = IF psFile.kind = "complete" THEN psCatalog
                    ELSE [psCatalog EXCEPT !.keys = @ \cup {PersistKey}]
    /\ psLoaded' = [status |-> "none", config |-> EmptyConfig]
    /\ psPc' = "saved"

\* ---- the session ----

\* The record an earlier session left in the data file for the key.
EarlierRecords ==
    {[EmptyConfig EXCEPT !["markedRowNumbers"] =
          Dict({<<StrKey(intStr(1)), Atom("True")>>})],
     [EmptyConfig EXCEPT !["columnWidthsByDisplaySize"] =
          Dict({<<StrKey(intStr(PersistDisplaySize)),
                  Dict({<<StrKey(intStr(MaxIntKey)), Atom("5")>>})>>})]}

\* The kinds of data file an earlier session, or an editor, may have left:
\* none; a list of records ("complete"); an empty JSON object or string
\* ("emptyDocument"); a text that is not JSON ("notJson"); a JSON document
\* that is not a list of {key, config} records ("notRecords").
FileOfKind(kind) == [kind |-> kind, config |-> EmptyConfig]

SessionFiles ==
    {FileOfKind(kind) : kind \in {"none", "emptyDocument", "notJson", "notRecords"}}
    \cup {[kind |-> "complete", config |-> rec] : rec \in EarlierRecords}

\* json.load raises JSONDecodeError; `item["config"]` or `item["key"]` raises
\* TypeError or KeyError.
MalformedMutant(f) == FALSE

Malformed(f) == f.kind \in {"notJson", "notRecords"}

\* An earlier session has ended; initialize() starts this one.
startSession ==
    /\ psPc = "idle"
    /\ psFile' \in SessionFiles
    /\ psPc' = "started"
    /\ UNCHANGED <<psCell, psLeaf, psSaved, psLoaded, psSaves, psCatalog>>
    /\ UNCHANGED NotPersist

\* TableConfig.get(key) for a table with a cell in focus: the catalog is
\* built from what read returns (`cls.read() or []`), unless read raises;
\* then cls(key) when the catalog lacks the key, else cls.load(key).
getConfig ==
    /\ psPc = "started"
    /\ psCell' \in [row : KeyNumbers, col : KeyNumbers]
    /\ IF Malformed(psFile)
       THEN /\ psLoaded' = [status |-> "raised", config |-> EmptyConfig]
            /\ psPc' = "failed"
            /\ UNCHANGED <<psLeaf, psCatalog>>
       ELSE /\ psCatalog' = [set |-> TRUE,
                             keys |-> IF psFile.kind = "complete" THEN {PersistKey} ELSE {}]
            /\ psLeaf' = IF psFile.kind = "complete" THEN restoreIntKeys(psFile.config)
                         ELSE EmptyConfig
            /\ psPc' = "open"
            /\ UNCHANGED psLoaded
    /\ UNCHANGED <<psFile, psSaved, psSaves>>
    /\ UNCHANGED NotPersist

Editable == psPc \in {"open", "saved", "loaded"} /\ psSaves < MaxSaves

\* cfg[name] of an integer-keyed entry the leaf lacks: a view over a new dict
ViewOf(name) == IF psLeaf[name].type = "absent" THEN Dict({}) ELSE psLeaf[name]

\* script_toggleMarkedRow / script_toggleMarkedColumn: with announce,
\* without announce, unmarked; then cfg.save()
ToggleMarkedAndSave(name, num) ==
    LET marked == ViewOf(name)
        announce == ItemAt(marked, IntKey(num))
        after == IF announce.type = "absent" THEN WithItem(marked, IntKey(num), Atom("True"))
                 ELSE IF announce.atom = "True"
                 THEN WithItem(marked, IntKey(num), Atom("False"))
                 ELSE WithoutItem(marked, IntKey(num))
    IN  SaveLeaf([psLeaf EXCEPT ![name] = after])

toggleMarkedRowAndSave ==
    /\ Editable
    /\ ToggleMarkedAndSave("markedRowNumbers", psCell.row)
    /\ UNCHANGED psCell
    /\ UNCHANGED NotPersist

toggleMarkedColumnAndSave ==
    /\ Editable
    /\ ToggleMarkedAndSave("markedColumnNumbers", psCell.col)
    /\ UNCHANGED psCell
    /\ UNCHANGED NotPersist

\* TableConfig.setColumnWidth(columnNumber, width): the width is stored
\* under the display size and the column number; then self.save()
setColumnWidthAndSave ==
    /\ Editable
    /\ \E width \in {"0", "5"} :
        LET sizes == ViewOf("columnWidthsByDisplaySize")
            size == IntKey(PersistDisplaySize)
            cols == IF ItemAt(sizes, size).type = "absent" THEN Dict({})
                    ELSE ItemAt(sizes, size)
            after == WithItem(sizes, size,
                              WithItem(cols, IntKey(psCell.col), Atom(width)))
        IN  SaveLeaf([psLeaf EXCEPT !["columnWidthsByDisplaySize"] = after])
    /\ UNCHANGED psCell
    /\ UNCHANGED NotPersist

\* The menu: value = cfg[name].copy() is a NestedChainMap no container
\* links to, so that cfg[name] = value stores the NestedChainMap itself in
\* the leaf; then save.
MenuAssignAndSave(name, num, value) ==
    LET copy == ChainMapOf(ViewOf(name).items)
        after == IF value.type = "absent" THEN WithoutItem(copy, IntKey(num))
                 ELSE WithItem(copy, IntKey(num), value)
    IN  SaveLeaf([psLeaf EXCEPT ![name] = after])

\* onToggleMarkedRow_WithAnnounce, _WithoutAnnounce, _Unmarked
onToggleMarkedRow ==
    /\ Editable
    /\ \E value \in {Atom("True"), Atom("False"), Absent} :
        MenuAssignAndSave("markedRowNumbers", psCell.row, value)
    /\ UNCHANGED psCell
    /\ UNCHANGED NotPersist

\* onCustomizeColHeader: the custom header is deleted, or set to the text entered
onCustomizeColHeader ==
    /\ Editable
    /\ LET has == ItemAt(ViewOf("customColumnHeaders"), IntKey(psCell.col)).type # "absent"
       IN  MenuAssignAndSave("customColumnHeaders", psCell.col,
                             IF has THEN Absent ELSE Atom("text"))
    /\ UNCHANGED psCell
    /\ UNCHANGED NotPersist

\* TableConfig.load(key): the record of the key in what read returns, with
\* its integer keys restored; LookupError when there is none.
loadConfig ==
    /\ psPc = "saved"
    /\ psLoaded' =
         IF psFile.kind # "complete" THEN [status |-> "LookupError", config |-> EmptyConfig]
         ELSE IF \E n \in INT_KEY_MAPPINGS : RestoreRaises(psFile.config[n])
         THEN [status |-> "ValueError", config |-> EmptyConfig]
         ELSE [status |-> "returned", config |-> restoreIntKeys(psFile.config)]
    /\ psPc' = "loaded"
    /\ UNCHANGED <<psCell, psLeaf, psFile, psSaved, psSaves, psCatalog>>
    /\ UNCHANGED NotPersist

PersistNext ==
    \/ startSession
    \/ getConfig
    \/ toggleMarkedRowAndSave
    \/ toggleMarkedColumnAndSave
    \/ setColumnWidthAndSave
    \/ onToggleMarkedRow
    \/ onCustomizeColHeader
    \/ loadConfig

\* =====================================================================
\* synchronized.method: two threads calling inc and dec on one object
\* =====================================================================

\* The number of calls each thread makes (range(10) in the test).
MaxCalls == 2

\* t1 calls o.inc(), t2 calls o.dec()
SyThreads == {1, 2}

MethodOf(t) == <<"inc", "dec">>[t]

\* method(func): lockAttrName = f"{func.__name__}__lock__"
lockAttrName(funcName) == IF funcName = "inc" THEN "inc__lock__" ELSE "dec__lock__"

SyLockAttrNames == {"inc__lock__", "dec__lock__"}

\* A lock is named by the attribute it was created for and the thread that
\* created it.
NoSyLock == [attr |-> "", by |-> 0]

\* The thread is inside `with lock:`.
SyInBody(t) == syThread[t].pc \in {"read", "write"}

\* t1.start(); t2.start()
startThreads ==
    /\ \A t \in SyThreads : syThread[t].pc = "new"
    /\ syThread' = [t \in SyThreads |-> [syThread[t] EXCEPT !.pc = "hasattr"]]
    /\ UNCHANGED <<syCounter, syLockAttrs>>
    /\ UNCHANGED NotSync

\* if not hasattr(holder, lockAttrName):
syncHasattr(t) ==
    /\ syThread[t].pc = "hasattr"
    /\ syThread' = [syThread EXCEPT ![t].pc =
           IF syLockAttrs[lockAttrName(MethodOf(t))] = NoSyLock THEN "setattr"
           ELSE "getattr"]
    /\ UNCHANGED <<syCounter, syLockAttrs>>
    /\ UNCHANGED NotSync

\* lock = lockCreator(); setattr(holder, lockAttrName, lock)
syncSetattr(t) ==
    /\ syThread[t].pc = "setattr"
    /\ syLockAttrs' = [syLockAttrs EXCEPT ![lockAttrName(MethodOf(t))] =
           [attr |-> lockAttrName(MethodOf(t)), by |-> t]]
    /\ syThread' = [syThread EXCEPT ![t].pc = "getattr"]
    /\ UNCHANGED syCounter
    /\ UNCHANGED NotSync

\* lock = getattr(holder, lockAttrName)
syncGetattr(t) ==
    /\ syThread[t].pc = "getattr"
    /\ syThread' = [syThread EXCEPT ![t].pc = "acquire",
                                    ![t].lock = syLockAttrs[lockAttrName(MethodOf(t))]]
    /\ UNCHANGED <<syCounter, syLockAttrs>>
    /\ UNCHANGED NotSync

\* with lock: no other thread is inside `with` on the same lock
syncAcquire(t) ==
    /\ syThread[t].pc = "acquire"
    /\ \A u \in SyThreads \ {t} : ~(SyInBody(u) /\ syThread[u].lock = syThread[t].lock)
    /\ syThread' = [syThread EXCEPT ![t].pc = "read"]
    /\ UNCHANGED <<syCounter, syLockAttrs>>
    /\ UNCHANGED NotSync

\* new_value = self.counter + 1 (inc) or self.counter - 1 (dec); time.sleep
bodyRead(t) ==
    /\ syThread[t].pc = "read"
    /\ syThread' = [syThread EXCEPT ![t].pc = "write",
                                    ![t].newValue = IF MethodOf(t) = "inc" THEN syCounter + 1
                                                    ELSE syCounter - 1]
    /\ UNCHANGED <<syCounter, syLockAttrs>>
    /\ UNCHANGED NotSync

\* self.counter = new_value; the lock is released and the call returns; the
\* thread makes its next call, or ends after the last.
bodyWrite(t) ==
    /\ syThread[t].pc = "write"
    /\ syCounter' = syThread[t].newValue
    /\ syThread' = [syThread EXCEPT ![t].pc = IF syThread[t].calls + 1 < MaxCalls THEN "hasattr"
                                               ELSE "done",
                                    ![t].calls = @ + 1,
                                    ![t].lock = NoSyLock]
    /\ UNCHANGED syLockAttrs
    /\ UNCHANGED NotSync

SyncNext ==
    \/ startThreads
    \/ \E t \in SyThreads :
        \/ syncHasattr(t)
        \/ syncSetattr(t)
        \/ syncGetattr(t)
        \/ syncAcquire(t)
        \/ bodyRead(t)
        \/ bodyWrite(t)

\* =====================================================================
\* getTableManager, getTableConfig, getTableConfigKey: nested requests
\* =====================================================================

\* The number of requests made from outside, one after the other.
MaxRequests == 2

\* The number of handler calls in progress beyond which the model stops
\* following a recursion.
MaxNesting == 14

ResolveFuncs == {"getTableManager", "getTableConfig", "getTableConfigKey"}

\* The config keys: "" ("empty"), the key made of the column headers, the
\* key of a web module rule, and the two former under a web module's name.
ConfigKeys == {"empty", "headers", "rule", "module", "headersModule"}

\* Keys that are a Mapping with a "webModule" item.
WebModuleKeys == {"rule", "module", "headersModule"}

\* The documents: a web module is there only with WebAccess, a result only
\* when the web module is ready and has a table config for the rule.
ResolveEnvs ==
    {e \in [webModule : BOOLEAN, ready : BOOLEAN, overridden : BOOLEAN, result : BOOLEAN,
            tableID : BOOLEAN, headers : BOOLEAN, wmDefaults : BOOLEAN,
            ruleDefaults : BOOLEAN] :
        /\ e.ready => e.webModule
        /\ e.overridden => e.webModule
        /\ e.wmDefaults => e.webModule
        /\ e.result => e.ready
        /\ e.ruleDefaults => e.result
        /\ e.headers => e.tableID}

NoKwargs == [key |-> "None", cfg |-> FALSE, result |-> FALSE]

\* TableHandlerDispatcher.gen: the web module of the document, the tree
\* interceptor, TableHandler()
FirstHandler == IF rsEnv.webModule THEN "wm" ELSE "ti"

NextHandlerOf(h) == IF h = "wm" THEN "ti" ELSE "base"

HandlerCall(func, h, kw, first) == [func |-> func, h |-> h, pc |-> "start", kw |-> kw, first |-> first]

\* getTableManager(**kwargs), getTableConfig(**kwargs), getTableConfigKey(**kwargs)
Request(func, kw) == HandlerCall(func, FirstHandler, kw, TRUE)

RsTop == rsStack[Len(rsStack)]

RsAt(func, h, pc) ==
    /\ rsPc = "running"
    /\ rsStack # <<>>
    /\ RsTop.func = func /\ RsTop.h = h /\ RsTop.pc = pc

\* The caller goes on to `pc` once the callee has returned.
RsCall(pc, kw, callee) ==
    /\ Len(rsStack) < MaxNesting
    /\ rsStack' = Append([rsStack EXCEPT ![Len(rsStack)] = [RsTop EXCEPT !.pc = pc, !.kw = kw]],
                         callee)
    /\ UNCHANGED <<rsPc, rsRet>>

\* nextHandler(**kwargs)
RsNext(pc, kw) == RsCall(pc, kw, HandlerCall(RsTop.func, NextHandlerOf(RsTop.h), kw, FALSE))

RsReturn(value) ==
    /\ rsStack' = Front(rsStack)
    /\ rsRet' = value
    /\ rsPc' = IF Len(rsStack) = 1 THEN "done" ELSE "running"

\* A request from outside: script_toggleTableMode, _set_passThrough,
\* _set_selection ask for the table manager; the config and its key can be
\* asked for as well.
request ==
    /\ rsPc \in {"idle", "done"}
    /\ rsRequests < MaxRequests
    /\ rsRequests' = rsRequests + 1
    /\ IF rsPc = "idle" THEN rsEnv' \in ResolveEnvs ELSE UNCHANGED rsEnv
    /\ \E func \in ResolveFuncs :
         rsStack' = <<[func |-> func,
                       h |-> IF rsEnv'.webModule THEN "wm" ELSE "ti",
                       pc |-> "start", kw |-> NoKwargs, first |-> TRUE]>>
    /\ rsPc' = "running"
    /\ UNCHANGED <<rsRet, rsMaps, rsSeen>>
    /\ UNCHANGED NotResolve

\* ---- TableHandlerWebModule.getTableManager ----

wmGetTableManager ==
    /\ RsAt("getTableManager", "wm", "start")
    /\ LET kw == RsTop.kw
           found == kw.result \/ rsEnv.result
           kw2 == [kw EXCEPT !.result = found]
       IN  IF ~rsEnv.ready THEN RsNext("ret", kw)
           ELSE IF found /\ ~kw.result /\ rsEnv.overridden
           THEN RsCall("ret", kw2, HandlerCall("getTableManager", "wm", kw2, FALSE))
           ELSE IF ~kw.cfg THEN RsCall("cfg", kw2, Request("getTableConfig", kw2))
           ELSE RsNext("ret", kw2)
    /\ UNCHANGED <<rsEnv, rsMaps, rsRequests, rsSeen>>
    /\ UNCHANGED NotResolve

\* kwargs["cfg"] = getTableConfig(**kwargs) has returned; res = nextHandler(**kwargs)
wmGetTableManagerCfg ==
    /\ RsAt("getTableManager", "wm", "cfg")
    /\ RsNext("ret", [RsTop.kw EXCEPT !.cfg = TRUE])
    /\ UNCHANGED <<rsEnv, rsMaps, rsRequests, rsSeen>>
    /\ UNCHANGED NotResolve

\* ---- TableHandlerWebModule.getTableConfig ----

wmGetTableConfig ==
    /\ RsAt("getTableConfig", "wm", "start")
    /\ IF RsTop.kw.key = "None"
       THEN RsCall("key", RsTop.kw, Request("getTableConfigKey", RsTop.kw))
       ELSE RsNext("insert", RsTop.kw)
    /\ UNCHANGED <<rsEnv, rsMaps, rsRequests, rsSeen>>
    /\ UNCHANGED NotResolve

\* key = kwargs["key"] = getTableConfigKey(**kwargs) has returned
wmGetTableConfigKeyed ==
    /\ RsAt("getTableConfig", "wm", "key")
    /\ RsNext("insert", [RsTop.kw EXCEPT !.key = rsRet])
    /\ UNCHANGED <<rsEnv, rsMaps, rsRequests, rsSeen>>
    /\ UNCHANGED NotResolve

\* cfg.map.maps.insert(1, ...)
Insert1(maps, layer) == <<maps[1], layer>> \o Tail(maps)

\* The maps of the config the web module returns for the key: the web
\* module's defaults, then the rule's, are inserted under the leaf.
WithWebModuleDefaults(maps, key) ==
    LET withWm == IF rsEnv.wmDefaults THEN Insert1(maps, "wmDefaults") ELSE maps
    IN  IF key = "rule" /\ rsEnv.ruleDefaults THEN Insert1(withWm, "ruleDefaults") ELSE withWm

\* cfg = nextHandler(**kwargs) has returned; the defaults are inserted when
\* the key is a Mapping with "webModule"
wmGetTableConfigInsert ==
    /\ RsAt("getTableConfig", "wm", "insert")
    /\ LET key == RsTop.kw.key
           maps == IF key \in WebModuleKeys THEN WithWebModuleDefaults(rsMaps[key], key)
                   ELSE rsMaps[key]
       IN  /\ rsMaps' = [rsMaps EXCEPT ![key] = maps]
           /\ rsSeen' = [rsSeen EXCEPT ![key] = IF @.times = 0 THEN [first |-> maps, times |-> 1]
                                                  ELSE [@ EXCEPT !.times = @ + 1]]
    /\ RsReturn("cfg")
    /\ UNCHANGED <<rsEnv, rsRequests>>
    /\ UNCHANGED NotResolve

\* ---- TableHandlerWebModule.getTableConfigKey ----

wmGetTableConfigKey ==
    /\ RsAt("getTableConfigKey", "wm", "start")
    /\ IF RsTop.kw.result THEN RsReturn("rule")
       ELSE RsNext("ret", RsTop.kw)
    /\ UNCHANGED <<rsEnv, rsMaps, rsRequests, rsSeen>>
    /\ UNCHANGED NotResolve

\* key = nextHandler(**kwargs) has returned; {} replaces a key that is not a
\* Mapping, and the web module's name is set in it
wmGetTableConfigKeyNamed ==
    /\ RsAt("getTableConfigKey", "wm", "ret")
    /\ RsReturn(IF rsRet = "headers" THEN "headersModule" ELSE "module")
    /\ UNCHANGED <<rsEnv, rsMaps, rsRequests, rsSeen>>
    /\ UNCHANGED NotResolve

\* ---- DocumentTableHandler.getTableConfigKey (TableHandlerBmdti) ----

\* kwargs["key"] = "": the key the temporary table manager is asked with
DefaultManagerKeyMutant(key) == key

DefaultManagerKey(key) == "empty"

tiGetTableConfigKey ==
    /\ RsAt("getTableConfigKey", "ti", "start")
    /\ LET kw == [RsTop.kw EXCEPT !.key = DefaultManagerKey(@)]
       IN  RsCall("table", kw, Request("getTableManager", kw))
    /\ UNCHANGED <<rsEnv, rsMaps, rsRequests, rsSeen>>
    /\ UNCHANGED NotResolve

\* table = getTableManager(**kwargs) has returned: the key of the column
\* headers, or the next handler's
tiGetTableConfigKeyTable ==
    /\ RsAt("getTableConfigKey", "ti", "table")
    /\ IF rsRet = "table" /\ rsEnv.headers THEN RsReturn("headers")
       ELSE RsNext("ret", RsTop.kw)
    /\ UNCHANGED <<rsEnv, rsMaps, rsRequests, rsSeen>>
    /\ UNCHANGED NotResolve

\* ---- DocumentTableHandler.getTableManager (TableHandlerBmdti) ----

tiGetTableManager ==
    /\ RsAt("getTableManager", "ti", "start")
    /\ IF ~rsEnv.tableID THEN RsNext("ret", RsTop.kw)
       ELSE IF ~RsTop.kw.cfg THEN RsCall("made", RsTop.kw, Request("getTableConfig", RsTop.kw))
       ELSE RsReturn("table")
    /\ UNCHANGED <<rsEnv, rsMaps, rsRequests, rsSeen>>
    /\ UNCHANGED NotResolve

\* cfg = getTableConfig(**kwargs) has returned: the table manager is made
tiGetTableManagerMade ==
    /\ RsAt("getTableManager", "ti", "made")
    /\ RsReturn("table")
    /\ UNCHANGED <<rsEnv, rsMaps, rsRequests, rsSeen>>
    /\ UNCHANGED NotResolve

\* ---- TableHandler ----

\* TableConfig.get(key): the cached config, or a new one over the layers
\* of the "" config
ConfigMaps(maps, key) ==
    IF maps[key] # <<>> THEN maps[key]
    ELSE IF key = "empty" THEN <<"leaf", "DEFAULTS">>
    ELSE <<"leaf", "emptyLeaf", "DEFAULTS">>

TableConfigGet(key) == rsMaps' = [rsMaps EXCEPT ![key] = ConfigMaps(rsMaps, key)]

\* TableHandler.getTableConfig, which the tree interceptor inherits
getTableConfigOfKey ==
    /\ RsAt("getTableConfig", "ti", "start")
    /\ IF RsTop.kw.key = "None"
       THEN /\ RsCall("key", RsTop.kw, Request("getTableConfigKey", RsTop.kw))
            /\ UNCHANGED rsMaps
       ELSE /\ TableConfigGet(RsTop.kw.key)
            /\ RsReturn("cfg")
    /\ UNCHANGED <<rsEnv, rsRequests, rsSeen>>
    /\ UNCHANGED NotResolve

\* key = getTableConfigKey(**kwargs) has returned
getTableConfigKeyed ==
    /\ RsAt("getTableConfig", "ti", "key")
    /\ TableConfigGet(rsRet)
    /\ RsReturn("cfg")
    /\ UNCHANGED <<rsEnv, rsRequests, rsSeen>>
    /\ UNCHANGED NotResolve

\* TableHandler.getTableManager: None
baseGetTableManager ==
    /\ RsAt("getTableManager", "base", "start")
    /\ RsReturn("NoTable")
    /\ UNCHANGED <<rsEnv, rsMaps, rsRequests, rsSeen>>
    /\ UNCHANGED NotResolve

\* TableHandler.getTableConfigKey: ""
baseGetTableConfigKey ==
    /\ RsAt("getTableConfigKey", "base", "start")
    /\ RsReturn("empty")
    /\ UNCHANGED <<rsEnv, rsMaps, rsRequests, rsSeen>>
    /\ UNCHANGED NotResolve

\* return res: what the next handler, or the same method called again, returned
returnNext ==
    /\ rsPc = "running"
    /\ rsStack # <<>>
    /\ RsTop.pc = "ret"
    /\ ~(RsTop.func = "getTableConfigKey" /\ RsTop.h = "wm")
    /\ RsReturn(rsRet)
    /\ UNCHANGED <<rsEnv, rsMaps, rsRequests, rsSeen>>
    /\ UNCHANGED NotResolve

ResolveNext ==
    \/ request
    \/ wmGetTableManager
    \/ wmGetTableManagerCfg
    \/ wmGetTableConfig
    \/ wmGetTableConfigKeyed
    \/ wmGetTableConfigInsert
    \/ wmGetTableConfigKey
    \/ wmGetTableConfigKeyNamed
    \/ tiGetTableConfigKey
    \/ tiGetTableConfigKeyTable
    \/ tiGetTableManager
    \/ tiGetTableManagerMade
    \/ getTableConfigOfKey
    \/ getTableConfigKeyed
    \/ baseGetTableManager
    \/ baseGetTableConfigKey
    \/ returnNext

\* A handler that can run does run: the calls are made by one thread.
ResolveFairness == WF_vars(ResolveNext)

\* =====================================================================
\* TableHandlerBmdti: browse mode, focus mode and table mode
\* =====================================================================

\* The number of queued calls beyond which no further command is taken.
MaxQueue == 2

\* The tables of the document, by table ID.
MaxTables == 2

\* Where the caret or the review cursor can be: in a table, or in none (0).
CaretTables == 0..MaxTables

TABLE_MODE == "TABLE_MODE"

BROWSE_MODE_FROM_TABLE_MODE == "BROWSE_MODE_FROM_TABLE_MODE"

FOCUS_MODE_FROM_TABLE_MODE == "FOCUS_MODE_FROM_TABLE_MODE"

\* bool(state): PassThrough.__bool__ for the three objects
ModeBool(state) == state \in {"True", FOCUS_MODE_FROM_TABLE_MODE}

ModeResult(p, table, raised) == [p |-> p, table |-> table, raised |-> raised]

\* The state set when table mode is asked for: False when no table could
\* be resolved.
ResolvedStateMutant(table) == TABLE_MODE

ResolvedState(table) == IF table = 0 THEN "False" ELSE TABLE_MODE

\* The state set when focus mode is asked for.
FocusStateMutant(p, state) == state

FocusState(p, state) ==
    IF p \in {TABLE_MODE, BROWSE_MODE_FROM_TABLE_MODE, FOCUS_MODE_FROM_TABLE_MODE}
    THEN FOCUS_MODE_FROM_TABLE_MODE
    ELSE state

\* _set_passThrough(state), for the state p, the current table, the table c
\* the caret is in, whether the last caret position is unset or the
\* selection's (atCaret), and whether the focus to return to has to be
\* taken from the current table (needParent).
\* _setPosition raises LookupError outside any table, which is not caught,
\* and ValueError in another table, after which the table is dropped.
SetPassThrough(state, p, table, c, atCaret, needParent) ==
    IF p = state THEN ModeResult(p, table, FALSE)
    ELSE IF state = TABLE_MODE
    THEN LET setPosition == table # 0 /\ p # BROWSE_MODE_FROM_TABLE_MODE /\ atCaret
             kept == IF setPosition /\ c # table THEN 0 ELSE table
             resolved == IF kept = 0 THEN c ELSE kept
         IN  IF setPosition /\ c = 0 THEN ModeResult(p, table, TRUE)
             ELSE ModeResult(ResolvedState(resolved), resolved, FALSE)
    ELSE IF ModeBool(state) THEN ModeResult(FocusState(p, state), table, FALSE)
    ELSE IF p = TABLE_MODE /\ needParent /\ table = 0 THEN ModeResult("None", table, TRUE)
    ELSE ModeResult(state, table, FALSE)

MdRan(op, result) ==
    /\ mdPassThrough' = result.p
    /\ mdCurrentTable' = result.table
    /\ mdLast' = [op |-> op, before |-> mdPassThrough, table |-> mdCurrentTable,
                  raised |-> result.raised]

MdCommand == Len(mdQueue) < MaxQueue

\* The queue once the selection has moved: a queued thtiswo_trailer that
\* would have found the selection where it was finds it elsewhere.
AfterMove(queue) == [i \in DOMAIN queue |-> IF queue[i] = "notMoved" THEN "moved" ELSE queue[i]]

\* GlobalPlugin.script_toggleTableMode, with the focus on a fake cell of
\* the document or not and the review cursor in table r or in none.
script_toggleTableMode ==
    /\ MdCommand
    /\ \E focusOnCell, atCaret \in BOOLEAN, r \in CaretTables :
         IF focusOnCell /\ mdPassThrough = TABLE_MODE
         THEN \E needParent \in BOOLEAN :
                MdRan("toggleOff", SetPassThrough("False", mdPassThrough, mdCurrentTable,
                                                  mdCaret, atCaret, needParent))
         ELSE IF r = 0
         THEN MdRan("toggleNoTable", ModeResult(mdPassThrough, mdCurrentTable, FALSE))
         ELSE MdRan("toggleOn", SetPassThrough(TABLE_MODE, mdPassThrough, r,
                                               mdCaret, atCaret, FALSE))
    /\ UNCHANGED <<mdCaret, mdQueue>>
    /\ UNCHANGED NotMode

\* _set_selection(info, reason) for a caret move: the selection is set and
\* set_selection_trailer is queued.  With the reason FOCUS in table mode
\* the current cell takes the focus instead.
setSelection ==
    /\ MdCommand
    /\ \E c \in CaretTables, focusReason \in BOOLEAN :
         IF focusReason /\ mdPassThrough = TABLE_MODE /\ mdCurrentTable # 0
         THEN UNCHANGED <<mdCaret, mdQueue>>
         ELSE /\ mdCaret' = c
              /\ mdQueue' = Append(AfterMove(mdQueue), "set_selection_trailer")
    /\ MdRan("setSelection", ModeResult(mdPassThrough, mdCurrentTable, FALSE))
    /\ UNCHANGED NotMode

\* set_selection_trailer: the table manager of the caret's table becomes
\* the current table; table mode is cancelled when there is none.
set_selection_trailer ==
    /\ mdQueue # <<>> /\ Head(mdQueue) = "set_selection_trailer"
    /\ mdQueue' = Tail(mdQueue)
    /\ IF mdCaret = 0 /\ mdPassThrough = TABLE_MODE
       THEN \E needParent \in BOOLEAN :
              /\ mdPassThrough' = SetPassThrough("False", mdPassThrough, 0, mdCaret,
                                                 TRUE, needParent).p
              /\ mdLast' = [op |-> "set_selection_trailer", before |-> mdPassThrough,
                            table |-> mdCurrentTable, raised |-> needParent]
       ELSE /\ UNCHANGED mdPassThrough
            /\ mdLast' = [op |-> "set_selection_trailer", before |-> mdPassThrough,
                          table |-> mdCurrentTable, raised |-> FALSE]
    /\ mdCurrentTable' = mdCaret
    /\ UNCHANGED mdCaret
    /\ UNCHANGED NotMode

\* ti.passThrough = True: focus mode is entered (by NVDA on activating a
\* control, or by the command that toggles between browse and focus mode).
enterFocusMode ==
    /\ MdCommand
    /\ ~ModeBool(mdPassThrough)
    /\ MdRan("enterFocusMode", SetPassThrough("True", mdPassThrough, mdCurrentTable,
                                              mdCaret, TRUE, FALSE))
    /\ UNCHANGED <<mdCaret, mdQueue>>
    /\ UNCHANGED NotMode

\* script_disablePassThrough (escape): back to table mode from the focus
\* mode entered from table mode, else NVDA's command, which leaves focus mode.
script_disablePassThrough ==
    /\ MdCommand
    /\ IF mdPassThrough = FOCUS_MODE_FROM_TABLE_MODE
       THEN \E atCaret \in BOOLEAN :
              MdRan("disablePassThrough", SetPassThrough(TABLE_MODE, mdPassThrough,
                                                         mdCurrentTable, mdCaret, atCaret, FALSE))
       ELSE IF ModeBool(mdPassThrough)
       THEN MdRan("disablePassThrough", SetPassThrough("False", mdPassThrough,
                                                       mdCurrentTable, mdCaret, TRUE, FALSE))
       ELSE MdRan("disablePassThrough", ModeResult(mdPassThrough, mdCurrentTable, FALSE))
    /\ UNCHANGED <<mdCaret, mdQueue>>
    /\ UNCHANGED NotMode

\* DocumentTableManager.script_disableTableMode (escape on a cell, no filter)
script_disableTableMode ==
    /\ MdCommand
    /\ mdPassThrough = TABLE_MODE
    /\ \E needParent \in BOOLEAN :
         MdRan("disableTableMode", SetPassThrough("False", mdPassThrough, mdCurrentTable,
                                                  mdCaret, TRUE, needParent))
    /\ UNCHANGED <<mdCaret, mdQueue>>
    /\ UNCHANGED NotMode

\* TableHandlerBmdtiScriptWrapper.override around a script of the document
\* with the default settings: table mode is left for the script, which
\* moves the caret or not, and thtiswo_trailer is queued.
wrappedScript ==
    /\ Len(mdQueue) + 2 <= MaxQueue
    /\ mdPassThrough \in {"False", TABLE_MODE, BROWSE_MODE_FROM_TABLE_MODE}
    /\ \E moved \in BOOLEAN, c \in CaretTables, needParent \in BOOLEAN :
         LET result == IF mdPassThrough = TABLE_MODE
                       THEN SetPassThrough(BROWSE_MODE_FROM_TABLE_MODE, mdPassThrough,
                                           mdCurrentTable, mdCaret, TRUE, needParent)
                       ELSE ModeResult(mdPassThrough, mdCurrentTable, FALSE)
         IN  /\ MdRan("wrappedScript", result)
             /\ IF result.raised THEN UNCHANGED <<mdCaret, mdQueue>>
                ELSE IF moved
                THEN /\ mdCaret' = c
                     /\ mdQueue' = AfterMove(mdQueue)
                                     \o <<"set_selection_trailer",
                                          IF mdPassThrough = TABLE_MODE THEN "moved"
                                          ELSE "thtiswo_trailer">>
                ELSE /\ UNCHANGED mdCaret
                     /\ mdQueue' = Append(mdQueue, IF mdPassThrough = TABLE_MODE THEN "notMoved"
                                                   ELSE "thtiswo_trailer")
    /\ UNCHANGED NotMode

\* thtiswo_trailer: table mode is restored when it was on before the script,
\* the selection has not moved and the document is not in focus mode; the
\* assignment is queued.
thtiswo_trailer ==
    /\ mdQueue # <<>> /\ Head(mdQueue) \in {"thtiswo_trailer", "moved", "notMoved"}
    /\ mdQueue' = IF Head(mdQueue) = "notMoved" /\ mdPassThrough # TABLE_MODE
                     /\ ~ModeBool(mdPassThrough)
                  THEN Append(Tail(mdQueue), "setattr")
                  ELSE Tail(mdQueue)
    /\ MdRan("thtiswo_trailer", ModeResult(mdPassThrough, mdCurrentTable, FALSE))
    /\ UNCHANGED mdCaret
    /\ UNCHANGED NotMode

\* queueCall(setattr, ti, "passThrough", TABLE_MODE)
setattrTableMode ==
    /\ mdQueue # <<>> /\ Head(mdQueue) = "setattr"
    /\ mdQueue' = Tail(mdQueue)
    /\ \E atCaret \in BOOLEAN :
         MdRan("setattr", SetPassThrough(TABLE_MODE, mdPassThrough, mdCurrentTable,
                                         mdCaret, atCaret, FALSE))
    /\ UNCHANGED mdCaret
    /\ UNCHANGED NotMode

\* script_nextTable, script_previousTable with enableOnQuickNav: table mode
\* at the current table, or the move to a table with the trailer queued.
script_nextTable ==
    /\ Len(mdQueue) + 2 <= MaxQueue
    /\ ~ModeBool(mdPassThrough)
    /\ \E next \in BOOLEAN, c \in CaretTables, atCaret \in BOOLEAN :
         IF next /\ mdPassThrough = "False" /\ mdCurrentTable # 0
         THEN /\ MdRan("nextTable", SetPassThrough(TABLE_MODE, mdPassThrough, mdCurrentTable,
                                                   mdCaret, atCaret, FALSE))
              /\ UNCHANGED <<mdCaret, mdQueue>>
         ELSE /\ MdRan("nextTable", ModeResult(mdPassThrough, mdCurrentTable, FALSE))
              /\ mdCaret' = c
              /\ mdQueue' = AfterMove(mdQueue) \o <<"set_selection_trailer", "nextTable_trailer">>
    /\ UNCHANGED NotMode

\* nextTable_trailer, previousTable_trailer: table mode is set anew, and
\* what the assignment raises is dropped.
nextTable_trailer ==
    /\ mdQueue # <<>> /\ Head(mdQueue) = "nextTable_trailer"
    /\ mdQueue' = Tail(mdQueue)
    /\ \E atCaret \in BOOLEAN :
         LET result == SetPassThrough(TABLE_MODE,
                                      IF mdPassThrough = TABLE_MODE THEN "False" ELSE mdPassThrough,
                                      mdCurrentTable, mdCaret, atCaret, FALSE)
         IN  /\ mdPassThrough' = result.p
             /\ mdCurrentTable' = result.table
             /\ mdLast' = [op |-> "nextTable_trailer", before |-> mdPassThrough,
                           table |-> mdCurrentTable, raised |-> result.raised]
    /\ UNCHANGED mdCaret
    /\ UNCHANGED NotMode

ModeNext ==
    \/ script_toggleTableMode
    \/ setSelection
    \/ set_selection_trailer
    \/ enterFocusMode
    \/ script_disablePassThrough
    \/ script_disableTableMode
    \/ wrappedScript
    \/ thtiswo_trailer
    \/ setattrTableMode
    \/ script_nextTable
    \/ nextTable_trailer

\* =====================================================================
\* Specifications: one per component
\* =====================================================================

\* Every component starts idle: no resolution in progress, no row focused.
Init ==
    /\ handlers = <<>>
    /\ genPos = 0
    /\ callStack = <<>>
    /\ chainPc = "idle"
    /\ chainOutcome = "none"
    /\ chainResult = 0
    /\ invoked = <<>>
    /\ logged = 0
    /\ displaySize = 0
    /\ sepScheme = "bar"
    /\ cellWidths = <<>>
    /\ lastCellLen = 0
    /\ selNum = 0
    /\ columns = <<>>
    /\ maxWindowNumber = NoWindow
    /\ windowNumber = NoWindow
    /\ brailleLen = 0
    /\ packPc = "idle"
    /\ layers = <<>>
    /\ prevLayers = <<>>
    /\ mapOp = NoOp
    /\ mapPc = "idle"
    /\ storePc = "down"
    /\ loaderDone = FALSE
    /\ lockAttr = 0
    /\ cache = [k \in AllKeys |-> NoObj]
    /\ catalogAttr = 0
    /\ catLists = [t \in Threads |-> {}]
    /\ objData = [o \in Objects |-> "unborn"]
    /\ file = NoFile
    /\ tmp = NoTmp
    /\ stack = [t \in Threads |-> <<>>]
    /\ thrPc = [t \in Threads |-> "idle"]
    /\ got = [t \in Threads |-> NoObj]
    /\ outcome = [t \in Threads |-> "none"]
    /\ writeFailed = {}
    /\ writeLogged = {}
    /\ mgrPc = "idle"
    /\ axis = "row"
    /\ tcfg = EmptyLayer
    /\ tparent = EmptyLayer
    /\ curNum = 0
    /\ lastScript = [name |-> "none", count |-> 0]
    /\ report = [msg |-> "none", error |-> "none"]
    /\ unsaved = FALSE
    /\ presses = NoPresses
    /\ navPc = "idle"
    /\ manager = "TableManager"
    /\ cells = [r \in Rows |-> <<"b", "none">>]
    /\ currentRowNumber = 1
    /\ currentColumnNumber = 1
    /\ filterText = ""
    /\ filterCaseSensitive = FALSE
    /\ lastMove = NoMove
    /\ stepPc = "idle"
    /\ line = [lookup |-> [n \in LineNumbers |-> 0], num |-> [o \in Objs |-> 1],
               span |-> [o \in Objs |-> 1]]
    /\ stepFrom = 1
    /\ stepNumber = 1
    /\ stepResult = NoStep
    /\ rowPc = "idle"
    /\ rowSrc = <<[num |-> 1, span |-> 1]>>
    /\ rowCache = NoCache
    /\ cellResult = NoCell
    /\ rowsPc = "idle"
    /\ tableClass = "FakeTableManager"
    /\ rowCount = 0
    /\ rowCells = {}
    /\ columnSet = FALSE
    /\ rowsCached = {}
    /\ rowResult = NoRow
    /\ firstPc = "idle"
    /\ tableShape = [rowCount |-> 1, columnCount |-> 1, headers |-> "none"]
    /\ headerCfg = DefaultHeaderCfg
    /\ firstDataCell = NoDataCell
    /\ posPc = "idle"
    /\ posTable = [class |-> "FakeTableManager", rowCount |-> 0, cells |-> {}]
    /\ tablePos = NoPos
    /\ posScript = "none"
    /\ panPc = "idle"
    /\ panRow = [widths |-> <<0>>, sel |-> 1, scheme |-> "bar", lastLen |-> 2,
                 resizing |-> FALSE]
    /\ panRegion = NewRegion
    /\ panLast = NoPan
    /\ rzPc = "idle"
    /\ rzCfg = [displaySize |-> 5, style |-> 0, routing |-> FALSE]
    /\ rzStored = PyNone
    /\ rzLast = NoResize
    /\ psPc = "idle"
    /\ psCell = [row |-> 1, col |-> 1]
    /\ psLeaf = EmptyConfig
    /\ psFile = [kind |-> "none", config |-> EmptyConfig]
    /\ psSaved = [leaf |-> EmptyConfig, raised |-> FALSE]
    /\ psLoaded = [status |-> "none", config |-> EmptyConfig]
    /\ psSaves = 0
    /\ psCatalog = [set |-> FALSE, keys |-> {}]
    /\ syThread = [t \in SyThreads |-> [pc |-> "new", calls |-> 0, lock |-> NoSyLock, newValue |-> 0]]
    /\ syCounter = 0
    /\ syLockAttrs = [a \in SyLockAttrNames |-> NoSyLock]
    /\ rsPc = "idle"
    /\ rsEnv = [webModule |-> FALSE, ready |-> FALSE, overridden |-> FALSE, result |-> FALSE,
                tableID |-> FALSE, headers |-> FALSE, wmDefaults |-> FALSE, ruleDefaults |-> FALSE]
    /\ rsStack = <<>>
    /\ rsRet = "None"
    /\ rsMaps = [k \in ConfigKeys |-> <<>>]
    /\ rsRequests = 0
    /\ rsSeen = [k \in ConfigKeys |-> [first |-> <<>>, times |-> 0]]
    /\ mdPassThrough = "False"
    /\ mdCurrentTable = 0
    /\ mdCaret = 0
    /\ mdQueue = <<>>
    /\ mdLast = [op |-> "none", before |-> "False", table |-> 0, raised |-> FALSE]

SpecChain == Init /\ [][ChainNext]_vars

SpecPack == Init /\ [][PackNext]_vars

SpecMap == Init /\ [][MapNext]_vars

SpecStore == Init /\ [][StoreNext]_vars

SpecStoreLive == Init /\ [][StoreNext]_vars /\ StoreFairness

SpecManager == Init /\ [][ManagerNext]_vars

SpecNav == Init /\ [][NavNext]_vars

SpecStep == Init /\ [][StepNext]_vars

SpecRow == Init /\ [][RowNext]_vars

SpecRows == Init /\ [][RowsNext]_vars

SpecFirst == Init /\ [][FirstNext]_vars

SpecPos == Init /\ [][PosNext]_vars

SpecPan == Init /\ [][PanNext]_vars

SpecResize == Init /\ [][ResizeNext]_vars

SpecPersist == Init /\ [][PersistNext]_vars

SpecSync == Init /\ [][SyncNext]_vars

SpecResolve == Init /\ [][ResolveNext]_vars

SpecMode == Init /\ [][ModeNext]_vars

SpecResolveLive == Init /\ [][ResolveNext]_vars /\ ResolveFairness

\* =====================================================================
\* Properties
\* =====================================================================

Threw(i) == i \in Range(invoked) /\ handlers[i].beh = "throw"

RECURSIVE SumWidths(_)
SumWidths(cols) ==
    IF cols = <<>> THEN 0
    ELSE (IF Head(cols).width = NoWidth THEN 0 ELSE Head(cols).width)
         + SumWidths(Tail(cols))

AssignedSum(win) == SumWidths(getWindowColumns(columns, win))

Windows == 0..maxWindowNumber

ClosedWindows == {w \in Windows : w < maxWindowNumber}

\* The last cell of window win and what follows it in that window.
LastCellIndex(win) ==
    CHOOSE i \in 1..Len(columns) :
        /\ columns[i].kind = "cell" /\ columns[i].win = win
        /\ \A j \in (i + 1)..Len(columns) :
              columns[j].win = win => columns[j].kind = "sep"

EndsWithSeparator(win) ==
    LET i == LastCellIndex(win)
    IN  /\ i < Len(columns)
        /\ columns[i + 1].kind = "sep" /\ columns[i + 1].win = win
        /\ columns[i + 1].width = widthAtEoW(sepScheme)

\* Every cell of the row appears once, in one window, in column order.
NoCellSplit ==
    SelectSeq(columns, LAMBDA c : c.kind = "cell")
        = [i \in 1..Len(cellWidths) |->
              (CHOOSE c \in Range(columns) : c.kind = "cell" /\ c.col = i)]

C7_ClosedWindowExact ==
    packPc = "updated" =>
        /\ NoCellSplit
        /\ \A w \in ClosedWindows :
            LET c == columns[LastCellIndex(w)]
            IN  /\ AssignedSum(w) = displaySize
                /\ \/ c.width >= cellWidths[c.col]
                   \/ /\ cellWidths[c.col] > displaySize
                      /\ c.width = displaySize - widthAtEoW(sepScheme)
                      /\ EndsWithSeparator(w)

\* C7 (amended): as above, but the column is cut whenever it does not fit
\* together with the end-of-window separator (its width exceeds D minus the
\* end-of-window separator width), which includes a column exactly D wide.
C7_ClosedWindowExactOrCut ==
    packPc = "updated" =>
        /\ NoCellSplit
        /\ \A w \in ClosedWindows :
            LET c == columns[LastCellIndex(w)]
            IN  /\ AssignedSum(w) = displaySize
                /\ EndsWithSeparator(w)
                /\ \/ c.width >= cellWidths[c.col]
                   \/ /\ cellWidths[c.col] > displaySize - widthAtEoW(sepScheme)
                      /\ c.width = displaySize - widthAtEoW(sepScheme)

\* A closed window whose last column was widened, and one whose only
\* column, exactly D wide, was cut.
C7_Witness ==
    /\ packPc = "updated"
    /\ Len(cellWidths) = 3
    /\ cellWidths[1] = displaySize
    /\ cellWidths[2] = 0
    /\ maxWindowNumber = 1
    /\ columns[1].width = displaySize - widthAtEoW(sepScheme)
    /\ columns[1].win = 0
    /\ columns[3].win = 1

Example == /\ packPc = "updated"
           /\ displaySize = 15
           /\ cellWidths = <<6, 6, 6>>
           /\ widthDefault(sepScheme) = 1

WidthsOf(cols) == [i \in 1..Len(cols) |-> cols[i].width]

KindsOf(cols) == [i \in 1..Len(cols) |-> cols[i].kind]

Definers(L, path) == {i \in 1..Len(L) : L[i][path] # "absent"}

MostSpecific(S) == CHOOSE i \in S : \A j \in S : i <= j

\* No layer holds a scalar where the path goes through a map.
MapsAllTheWay(L, path) ==
    \A n \in 1..(Len(path) - 1), i \in 1..Len(L) :
        L[i][SubSeq(path, 1, n)] \in {"absent", "map"}

\* C9: reading a setting, or an entry of a map-valued setting, through the
\* chain returns the value of the most specific layer that defines it: an
\* entry that only a less specific layer defines is visible.
C9_MostSpecificLayerWins ==
    (/\ mapOp.kind = "get"
     /\ MapsAllTheWay(layers, mapOp.path)
     /\ Definers(layers, mapOp.path) # {})
    => /\ mapOp.outcome = "ok"
       /\ mapOp.result = layers[MostSpecific(Definers(layers, mapOp.path))][mapOp.path]

IsPrefix(q, p) == Len(q) <= Len(p) /\ SubSeq(p, 1, Len(q)) = q

\* C10: an assignment through the chain or through a nested view of any
\* depth leaves every parent layer and the defaults as they were; when it
\* completes, the leaf holds the value at the path, under maps created where
\* they were missing, and the leaf's other entries are untouched; when it
\* raises, no layer has changed.
C10_AssignmentChangesLeafOnly ==
    mapOp.kind = "set"
    => /\ \A i \in 2..Len(layers) : layers[i] = prevLayers[i]
       /\ mapOp.outcome = "ok"
          => /\ layers[1][mapOp.path] = mapOp.value
             /\ \A n \in 1..(Len(mapOp.path) - 1) :
                    layers[1][SubSeq(mapOp.path, 1, n)] = "map"
             /\ \A p \in Paths :
                    ~IsPrefix(p, mapOp.path) /\ ~IsPrefix(mapOp.path, p)
                    => layers[1][p] = prevLayers[1][p]
       /\ mapOp.outcome # "ok" => layers = prevLayers

\* C10: an assignment three levels deep completed although the leaf had
\* none of the intermediate maps, which only a parent layer held.
C10_Witness ==
    /\ mapOp.kind = "set"
    /\ mapOp.outcome = "ok"
    /\ Len(mapOp.path) = 3
    /\ prevLayers[1][SubSeq(mapOp.path, 1, 1)] = "absent"
    /\ prevLayers[2][SubSeq(mapOp.path, 1, 2)] = "map"
    /\ layers[1][mapOp.path] = "w"

\* ---------------------------------------------------------------------
\* TableConfig
\* ---------------------------------------------------------------------

\* The instances something refers to.
LiveObjects == {o \in Objects : Referenced(o, stack, got)}

\* C2: threads that call TableConfig.get with the same key receive the
\* identical instance, and no two live instances have the same key.
C2_OneInstancePerKey ==
    /\ \A t, u \in Threads :
           (got[t] # NoObj /\ got[u] # NoObj /\ got[t].key = got[u].key)
           => got[t] = got[u]
    /\ \A o1, o2 \in LiveObjects : o1.key = o2.key => o1 = o2

\* The thread is inside the body of save, under the lock it acquired.
InSave(t) == \E i \in 1..Len(stack[t]) : stack[t][i].fn = "save" /\ InBody(stack[t][i])

\* C3: no two saves are in progress at once, and when every thread has
\* saved its config without a failure the file holds the latest record of
\* each of them.
C3_SavesNeverInterleave ==
    /\ \A t, u \in Threads : (InSave(t) /\ InSave(u)) => t = u
    /\ (\A t \in Threads :
            thrPc[t] = "done" /\ outcome[t] = "returned" /\ t \notin writeFailed)
       => /\ file.kind = "complete"
          /\ \A t \in Threads : file.recs[got[t].key] = objData[got[t]]

\* C4: the data file is at every step a complete document (or not there
\* yet): never truncated, never partially written.
C4_RealFileComplete == file.kind \in {"none", "complete"}

\* C5 as stated: a save that met a write failure ends with the exception
\* raised to the caller of the operation.
C5_WriteFailurePropagates ==
    \A t \in writeFailed : thrPc[t] = "done" => outcome[t] \notin {"none", "returned"}

\* C5: a save that met a write failure has logged it and has returned
\* normally to the caller of set, setColumnWidth or save; nothing is raised.
C5_WriteFailureIsLogged ==
    \A t \in writeFailed :
        /\ t \in writeLogged
        /\ thrPc[t] = "done"
        /\ outcome[t] = "returned"

\* C5: a thread's assignment has returned after its save failed to write,
\* with the change made in memory and the data file without it.
C5_Witness ==
    \E t \in writeFailed :
        /\ thrPc[t] = "done"
        /\ outcome[t] = "returned"
        /\ objData[got[t]] = NewValue(t)
        /\ file.recs[got[t].key] # NewValue(t)

\* C11: at the step where cfg[name] = value returns, the record of the
\* config's key in the data file is the config's leaf map, with the value
\* just assigned.
C11_SetPersistsLeaf ==
    [][\A t \in Threads :
           (thrPc[t] = "save" /\ thrPc'[t] = "done" /\ outcome'[t] = "returned")
           => /\ file'.kind = "complete"
              /\ file'.recs[got[t].key] = objData'[got[t]]]_vars

\* C12: remove(key) for a key that has a record in the data file returns
\* normally, and then neither the data file nor the catalog has the key,
\* the other records being as they were.
C12_RemoveDeletesRecord ==
    [][\A t \in Threads :
           (/\ At(t, "remove", "delete")
            /\ Top(t).data[Top(t).key] # "absent"
            /\ thrPc'[t] = "done")
           => /\ outcome'[t] = "returned"
              /\ file'.kind = "complete"
              /\ file'.recs = [file.recs EXCEPT ![Top(t).key] = "absent"]
              /\ catalogAttr' # 0 => Top(t).key \notin catLists'[catalogAttr']]_vars

\* The keys that have a record in the data file.
PersistedKeys == {k \in AllKeys : file.recs[k] # "absent"}

\* C13: once the loading thread has ended there is a catalog, and it holds
\* the keys of the data file before any caller has asked for it.
C13_LoaderPopulatesCatalog ==
    loaderDone
    => /\ catalogAttr # 0
       /\ (\A t \in Threads : thrPc[t] = "idle")
          => catLists[catalogAttr] = PersistedKeys

\* catalog() has gone past the join in this call of the thread, or has
\* returned to the get that called it.
PastJoin(t) ==
    \E i \in 1..Len(stack[t]) :
        \/ stack[t][i].fn = "catalog" /\ stack[t][i].pc = "assign"
        \/ /\ stack[t][i].fn = "get"
           /\ \/ stack[t][i].pc \in {"layers", "extend", "cache"}
              \/ stack[t][i].pc = "missing" /\ i = Len(stack[t])

\* C14: a call that needs the catalog gets past catalog()'s join only when
\* the loading thread has ended; a catalog exists, and get has returned a
\* config, only after that.
C14_CatalogWaitsForLoader ==
    /\ \A t \in Threads : PastJoin(t) => loaderDone
    /\ catalogAttr # 0 => loaderDone
    /\ \A t \in Threads : got[t] # NoObj => loaderDone

\* C14: a get has come back from catalog(), after the loading thread's end,
\* with the catalog that its read of the data file gave.
C14_Witness ==
    \E t \in Threads :
        /\ At(t, "get", "missing")
        /\ catalogAttr = t
        /\ loaderDone

\* ---- Helpers for the header and mark command properties ----

Header == CfgGet(tcfg, tparent, axis, HeaderKey(axis))

Marked == MarkedView(tcfg, tparent)

\* The command was pressed n times in a row on a cell.
Pressed(script, n) == presses.script = script /\ presses.n = n /\ presses.num # 0

\* C15 (as stated): setColumnHeader pressed twice in a row on the same row,
\* the header being unset before, leaves the header unset and the marked rows
\* map as it was before the first press.
C15_TwoPressesRestore ==
    (Pressed("setColumnHeader", 2) /\ presses.hdr0 = PyNone)
    => /\ Header = PyNone
       /\ Marked = presses.marks0

\* C15 (amended): when the first of the two presses is not itself a repeat of
\* the command, the header is unset again, every other row reads as before,
\* and the table's own config has no mark left on the pressed row.
C15_TwoPressesResetHeader ==
    (Pressed("setColumnHeader", 2) /\ presses.hdr0 = PyNone /\ presses.count0 = 0)
    => /\ Header = PyNone
       /\ \A n \in Nums \ {presses.num} : Marked[n] = presses.marks0[n]
       /\ tcfg.marks[presses.num] = Missing
       /\ report = [msg |-> "header reset to default", error |-> "none"]

\* C15 witness: the second press has reset the header of a row that was
\* marked with announce before the first one.
C15_Witness ==
    /\ Pressed("setColumnHeader", 2)
    /\ presses.hdr0 = PyNone
    /\ presses.count0 = 0
    /\ presses.marks0[presses.num] = PyTrue
    /\ Header = PyNone
    /\ Marked[presses.num] = Missing

\* C16: one press of setColumnHeader or setRowHeader moves the header
\* setting of its axis between unset (None), explicit (a number) and
\* disabled (False): an unset header becomes the current number, or disabled
\* when the press repeats the command; an explicit header becomes unset when
\* pressed on that number and the current number otherwise; a disabled header
\* becomes the current number.
C16_HeaderTriState ==
    \A script \in {"setColumnHeader", "setRowHeader"} :
        Pressed(script, 1)
        => /\ report.error = "none"
           /\ (presses.hdr0 = PyNone /\ presses.count0 = 0) => Header = presses.num
           /\ (presses.hdr0 = PyNone /\ presses.count0 > 0) => Header = PyFalse
           /\ (presses.hdr0 \in Nums /\ presses.hdr0 # presses.num) => Header = presses.num
           /\ presses.hdr0 = presses.num => Header = PyNone
           /\ presses.hdr0 = PyFalse => Header = presses.num
           /\ Header \in Nums => Marked[Header] = PyNone

\* C16 witness: three presses of setRowHeader on a column, from unset, have
\* assigned it, reset it and then disabled the row header.
C16_Witness ==
    /\ presses.script = "setRowHeader"
    /\ presses.n = 3
    /\ presses.hdr0 = PyNone
    /\ presses.count0 = 0
    /\ Header = PyFalse
    /\ report.msg = "header disabled"

\* C17: toggleMarkedRow or toggleMarkedColumn pressed in a row on a number
\* that reads unmarked and is not the header of its axis marks it with
\* announce, then marks it without announce, then unmarks it.
C17_ToggleCycle ==
    \A script \in {"toggleMarkedRow", "toggleMarkedColumn"} :
        (/\ presses.script = script
         /\ presses.num # 0
         /\ presses.marks0[presses.num] = Missing
         /\ presses.hdr0 # presses.num)
        => /\ report.error = "none"
           /\ presses.n = 1 => /\ Marked[presses.num] = PyTrue
                               /\ report.msg = "marked with announce"
           /\ presses.n = 2 => /\ Marked[presses.num] = PyFalse
                               /\ report.msg = "marked without announce"
           /\ presses.n = 3 => /\ Marked[presses.num] = Missing
                               /\ report.msg = "unmarked"
           /\ \A n \in Nums \ {presses.num} : Marked[n] = presses.marks0[n]
           /\ Header = presses.hdr0

\* C17 witness: the third toggle in a row has unmarked a row that read
\* unmarked before the first.
C17_Witness ==
    /\ presses.script = "toggleMarkedRow"
    /\ presses.n = 3
    /\ presses.num # 0
    /\ presses.marks0[presses.num] = Missing
    /\ presses.hdr0 # presses.num
    /\ Marked[presses.num] = Missing
    /\ report.msg = "unmarked"

\* C18: toggleMarkedColumn on the row header column, and toggleMarkedRow on
\* the column header row, leave the marked map unchanged, report the hint
\* that the number is already a header, and raise nothing.
C18_HeaderToggleRefused ==
    \A script \in {"toggleMarkedRow", "toggleMarkedColumn"} :
        (Pressed(script, 1) /\ presses.hdr0 = presses.num)
        => /\ Marked = presses.marks0
           /\ report = [msg |-> "already marked as header", error |-> "none"]

\* ---- Helpers for the move properties ----

\* The table has a cell in that row and column.
HasCell(r, c) == r \in Rows /\ c \in Cols /\ cells[r][c] # "none"

\* C19: moveToRow(n) and moveToColumn(n) whose target cannot be resolved
\* return failure and leave both current numbers as they were; otherwise
\* they return success and the number on their axis is n, the other one
\* unchanged.
C19_MoveSetsOrKeeps ==
    /\ lastMove.op = "moveToRow" =>
           IF HasCell(lastMove.n, lastMove.fromCol)
           THEN /\ lastMove.ok
                /\ currentRowNumber = lastMove.n
                /\ currentColumnNumber = lastMove.fromCol
           ELSE /\ ~lastMove.ok /\ lastMove.error = "none"
                /\ currentRowNumber = lastMove.fromRow
                /\ currentColumnNumber = lastMove.fromCol
    /\ lastMove.op = "moveToColumn" =>
           IF HasCell(lastMove.fromRow, lastMove.n)
           THEN /\ lastMove.ok
                /\ currentColumnNumber = lastMove.n
                /\ currentRowNumber = lastMove.fromRow
           ELSE /\ ~lastMove.ok /\ lastMove.error = "none"
                /\ currentRowNumber = lastMove.fromRow
                /\ currentColumnNumber = lastMove.fromCol

\* C19 witness: moveToColumn(2) has failed in a row that has no second cell,
\* and said so.
C19_Witness ==
    /\ lastMove.op = "moveToColumn"
    /\ lastMove.n = 2
    /\ cells[lastMove.fromRow][2] = "none"
    /\ ~lastMove.ok
    /\ lastMove.msg = "Edge of table"
    /\ currentColumnNumber = 1

\* The row contains the filter text, in any of its cells, whatever the case
\* of the letters unless the filter is case sensitive.
Contains(r) ==
    \E c \in Cols :
        \/ cells[r][c] = filterText
        \/ ~filterCaseSensitive /\ {cells[r][c], filterText} \subseteq {"a", "A"}

\* The rows in the direction d from a row, and the nearest of them that
\* contains the filter text (0 when none does).
Towards(from, d) == {r \in Rows : (r - from) * d > 0}

Nearest(from, d) ==
    LET found == {r \in Towards(from, d) : Contains(r)}
    IN  IF found = {} THEN 0
        ELSE CHOOSE r \in found : \A q \in found : (q - from) * d >= (r - from) * d

FilteredMove == lastMove.op \in {"next", "previous"} /\ filterText # ""

Stepped == stepResult.direction # "none"

\* C21: a step to the next or previous row or column that returns True has
\* set another number than the one of the object it started from; when the
\* object it probes has the number of the start, it says "Edge of table",
\* returns False and leaves the current number as it was.
C21_StepChangesNumber ==
    Stepped =>
        /\ stepResult.ok => /\ stepNumber # getNum(stepFrom)
                            /\ stepNumber = getNum(stepResult.toObj)
        /\ (stepResult.toObj # 0 /\ getNum(stepResult.toObj) = getNum(stepFrom))
           => /\ ~stepResult.ok
              /\ stepNumber = stepResult.fromNumber
              /\ stepResult.notify => stepResult.msg = "Edge of table"

\* C21 witness: the step to the previous one has found an object with the
\* number of the start, and failed at the edge.
C21_Witness ==
    /\ stepResult.direction = "previous"
    /\ stepResult.toObj # 0
    /\ stepResult.toObj # stepFrom
    /\ getNum(stepResult.toObj) = getNum(stepFrom)
    /\ ~stepResult.ok
    /\ stepResult.msg = "Edge of table"
    /\ stepNumber = stepResult.fromNumber

\* C22: the cell _getCell returns for a column of the table, also when it
\* comes from the row's cache after the document changed, covers the column
\* by the column number and span it has now.
C22_ReturnedCellCoversColumn ==
    cellResult.obj # 0 =>
        /\ columnNumber(cellResult.obj) <= cellResult.col
        /\ cellResult.col < columnNumber(cellResult.obj) + columnSpan(cellResult.obj)

\* ---------------------------------------------------------------------
\* C23
\* ---------------------------------------------------------------------

\* A row has just been asked for by its number.
RowAsked == rowsPc = "table" /\ rowResult.n \in RowNumbers

InConfiguredHeader(rc) ==
    \/ rc[1] = headerCfg.columnHeaderRowNumber
    \/ rc[2] = headerCfg.rowHeaderColumnNumber

BothHeadersConfigured ==
    headerCfg.columnHeaderRowNumber >= 1 /\ headerCfg.rowHeaderColumnNumber >= 1

\* The cells of the table outside the configured headers, and the first of
\* them in row-major order.
DataCells ==
    {rc \in (1..tableShape.rowCount) \X (1..tableShape.columnCount) :
        ~InConfiguredHeader(rc)}

IsFirstOf(rc, set) ==
    /\ rc \in set
    /\ \A other \in set \ {rc} :
          rc[1] < other[1] \/ (rc[1] = other[1] /\ rc[2] < other[2])

\* C24 as stated: _firstDataCell is the first cell in row-major order that
\* lies neither in the configured column-header row nor in the configured
\* row-header column; with both configured, it lies in neither.
C24_FirstDataCellOutsideHeaders ==
    firstPc = "got" =>
        /\ IsFirstOf(firstDataCell, DataCells)
        /\ BothHeadersConfigured => ~InConfiguredHeader(firstDataCell)

\* C24, amended: with no first data row or column configured, and both
\* headers configured in a table of several rows and several columns,
\* _firstDataCell is the first cell in row-major order that lies in neither
\* header; with a single row (or a single column), the cells of the header
\* row (or column) are not skipped and a header cell is returned; with both
\* a first data row and a first data column configured, that cell is
\* returned, header or not; and a cell of the table is returned in any case.
C24_FirstDataCell ==
    firstPc = "got" =>
        LET cfg == headerCfg
            noFirst == cfg.firstDataRowNumber = PyNone /\ cfg.firstDataColumnNumber = PyNone
        IN  /\ firstDataCell \in (1..tableShape.rowCount) \X (1..tableShape.columnCount)
            /\ (noFirst /\ BothHeadersConfigured
                    /\ tableShape.rowCount > 1 /\ tableShape.columnCount > 1)
                  => IsFirstOf(firstDataCell, DataCells)
            /\ (noFirst /\ BothHeadersConfigured
                    /\ (tableShape.rowCount = 1 \/ tableShape.columnCount = 1))
                  => InConfiguredHeader(firstDataCell)
            /\ (cfg.firstDataRowNumber # PyNone /\ cfg.firstDataColumnNumber # PyNone)
                  => firstDataCell = <<cfg.firstDataRowNumber, cfg.firstDataColumnNumber>>

\* C24 witness: with the first row and the first column configured as
\* headers, the cell (2, 2) is returned.
C24_Witness ==
    /\ firstPc = "got"
    /\ headerCfg.firstDataRowNumber = PyNone
    /\ headerCfg.firstDataColumnNumber = PyNone
    /\ headerCfg.columnHeaderRowNumber = 1
    /\ headerCfg.rowHeaderColumnNumber = 1
    /\ firstDataCell = <<2, 2>>

\* ---------------------------------------------------------------------
\* C25
\* ---------------------------------------------------------------------

\* C25: after any sequence of navigation commands, the current row number
\* and the current column number are each either unset or at least 1.
C25_CoordinatesUnsetOrPositive ==
    posPc = "table" =>
        /\ tablePos.rowNumber = PyNone \/ tablePos.rowNumber >= 1
        /\ tablePos.columnNumber = PyNone \/ tablePos.columnNumber >= 1

\* ---------------------------------------------------------------------
\* C26
\* ---------------------------------------------------------------------

\* The priority of a handler: that of the place gen() found it at.
Priority(src) ==
    CHOOSE i \in 1..6 :
        <<"plugin", "appModule", "webModule", "ti", "obj", "default">>[i] = src

\* C26: the handlers are invoked one at a time in the order running
\* plugins, application module, web module, tree interceptor, object,
\* default handler; a handler is invoked only if every handler invoked
\* before it called its nextHandler, and no handler is invoked twice in a
\* resolution.
C26_InvokedInPriorityOrder ==
    /\ Len(callStack) <= Len(invoked)
    /\ \A i \in 1..Len(invoked) :
          /\ invoked[i] \in 1..Len(handlers)
          /\ \A k \in 1..(i - 1) :
                /\ invoked[k] # invoked[i]
                /\ Priority(handlers[invoked[k]].src) < Priority(handlers[invoked[i]].src)
                /\ handlers[invoked[k]].beh = "defer"

\* C26 witness: a resolution in which the functions of all five places
\* deferred and the default handler answered.
C26_Witness ==
    /\ chainPc = "done"
    /\ chainOutcome = "returned"
    /\ Len(invoked) = 6
    /\ handlers[invoked[6]].src = "default"

\* ---------------------------------------------------------------------
\* C27
\* ---------------------------------------------------------------------

\* The window the packing puts the cell of the region in, and the highest
\* window number of the packing.
PackedWindowOfCell ==
    LET cols == getColumns(panRow.widths, panRow.sel, panRow.scheme, PanDisplaySize).columns
    IN  (CHOOSE c \in Range(cols) : c.kind = "cell" /\ c.col = panRow.sel).win

HighestPackedWindow ==
    LET cols == getColumns(panRow.widths, panRow.sel, panRow.scheme, PanDisplaySize).columns
    IN  CHOOSE w \in {c.win : c \in Range(cols)} : \A c \in Range(cols) : c.win <= w

\* C27 as stated: the window shown is always the one that holds the current
\* cell, and maxWindowNumber is the highest window number of the packing.
C27_WindowAlwaysHoldsCell ==
    panPc = "shown" =>
        /\ panRegion.windowNumber = PackedWindowOfCell
        /\ panRegion.maxWindowNumber = HighestPackedWindow

\* C27, amended: when the region is first updated and after each change of
\* the width of the column being resized, the window shown is the one that
\* holds the cell of the region; a pan that leaves the window for the next
\* or previous one shows a window that does not hold it. maxWindowNumber
\* is the highest window number of the packing throughout.
C27_WindowHoldsCellUntilPanned ==
    panPc = "shown" =>
        /\ panLast.cmd \in {"update", "resize"}
              => panRegion.windowNumber = PackedWindowOfCell
        /\ (panLast.cmd \in {"next", "previous"}
                /\ panLast.window = PackedWindowOfCell
                /\ panRegion.windowNumber # panLast.window)
              => panRegion.windowNumber # PackedWindowOfCell
        /\ panRegion.maxWindowNumber = HighestPackedWindow

\* C27 witness: the column being resized was moved to the next window by a
\* change of its width, and that window is shown.
C27_Witness ==
    /\ panPc = "shown"
    /\ panLast.cmd = "resize"
    /\ panLast.window = 0
    /\ panRegion.windowNumber = 1
    /\ PackedWindowOfCell = 1

\* ---------------------------------------------------------------------
\* C28
\* ---------------------------------------------------------------------

\* The last command was a pan.
Panned == panPc = "shown" /\ panLast.cmd \in {"next", "previous"}

\* C28: a pan first scrolls inside the buffer of the current window and
\* leaves the window number alone; only when the buffer cannot scroll any
\* further does it change the window number, by exactly one; the window
\* number stays within [0, maxWindowNumber], and a pan at either end changes
\* nothing.
C28_PanScrollsThenSteps ==
    /\ panPc = "shown" =>
          0 <= panRegion.windowNumber /\ panRegion.windowNumber <= panRegion.maxWindowNumber
    /\ Panned =>
          LET step == IF panLast.cmd = "next" THEN 1 ELSE -1
              atEnd == IF panLast.cmd = "next"
                       THEN panLast.window = panRegion.maxWindowNumber
                       ELSE panLast.window = 0
          IN  /\ panLast.scrollable =>
                    /\ panRegion.windowNumber = panLast.window
                    /\ panRegion.windowStartPos # panLast.start
              /\ (~panLast.scrollable /\ ~atEnd) =>
                    /\ panRegion.windowNumber = panLast.window + step
                    /\ panRegion.windowStartPos = panLast.start
              /\ (~panLast.scrollable /\ atEnd) =>
                    /\ panRegion.windowNumber = panLast.window
                    /\ panRegion.windowStartPos = panLast.start

\* C28 witness: a pan has scrolled the buffer of a window other than the
\* first, before any pan left that window.
C28_Witness ==
    /\ Panned
    /\ panLast.cmd = "next"
    /\ panLast.scrollable
    /\ panLast.window = 1
    /\ panRegion.windowNumber = 1
    /\ panRegion.windowStartPos = PanDisplaySize

\* ---------------------------------------------------------------------
\* C29
\* ---------------------------------------------------------------------

\* C29: whatever width is asked for and whatever expand, shrink and routing
\* commands are run in resize mode, the width stored for the column under
\* the display size D is within [0, D].
C29_StoredWidthWithinDisplay ==
    rzPc # "idle" =>
        \/ rzStored = PyNone
        \/ 0 <= rzStored /\ rzStored <= rzCfg.displaySize

\* C29 witness: a routing beyond the display size from the start of the
\* column has stored the display size.
C29_Witness ==
    /\ rzPc = "resizing"
    /\ rzLast.cmd = "route"
    /\ rzLast.d > rzCfg.displaySize
    /\ rzStored = rzCfg.displaySize
    /\ rzLast.before # rzStored

\* ---------------------------------------------------------------------
\* C30
\* ---------------------------------------------------------------------

\* The last command was a routing key in resize mode, routing setting the
\* width, with the resized column in the window shown.
RoutedAtColumn ==
    /\ rzPc # "idle"
    /\ rzLast.cmd = "route"
    /\ rzCfg.routing
    /\ rzLast.visible

\* C30 as stated: a routing at a distance d >= 0 from the start of the
\* region of the resized column stores d and keeps resize mode; a negative
\* distance ends resize mode and leaves the stored width alone.
C30_RoutingStoresDistance ==
    RoutedAtColumn =>
        /\ rzLast.d >= 0 => rzStored = rzLast.d /\ rzPc = "resizing"
        /\ rzLast.d < 0 => rzStored = rzLast.before /\ rzPc = "cell"

\* C30, amended: the width routed is the distance d, less one under the
\* separator scheme with a leading space (style 4 on a display of 40 cells
\* or more). If it is not negative and differs from the current width of
\* the column, it is stored, cut down to the display size, and resize mode
\* goes on; if it is negative or equal to the current width, resize mode
\* ends and the stored width is left alone.
C30_RoutingSetsWidth ==
    RoutedAtColumn =>
        LET width == IF rzCfg.style = 4 /\ rzCfg.displaySize >= 40
                     THEN rzLast.d - 1 ELSE rzLast.d
            cut == IF width > rzCfg.displaySize THEN rzCfg.displaySize ELSE width
        IN  IF width >= 0 /\ width # rzLast.current
            THEN rzStored = cut /\ rzPc = "resizing"
            ELSE rzStored = rzLast.before /\ rzPc = "cell"

\* C30 witness: under the scheme with a leading space, a routing at the
\* distance 4 has stored the width 3 and resize mode goes on.
C30_Witness ==
    /\ RoutedAtColumn
    /\ rzCfg.style = 4
    /\ rzCfg.displaySize = 40
    /\ rzLast.d = 4
    /\ rzStored = 3
    /\ rzLast.before # 3
    /\ rzPc = "resizing"

\* ---------------------------------------------------------------------
\* C31
\* ---------------------------------------------------------------------

\* The content of a mapping, whatever its class (Mapping.__eq__).
Content(node) == [node EXCEPT !.type = IF @ = "NestedChainMap" THEN "dict" ELSE @]

\* C31: a config loaded after a save has the integer-keyed maps the save
\* was given, with integer keys at every nesting level.
C31_SaveLoadRoundTrip ==
    psPc = "loaded" =>
        /\ psLoaded.status = "returned"
        /\ \A n \in INT_KEY_MAPPINGS : psLoaded.config[n] = Content(psSaved.leaf[n])

\* C31 where the dump did not raise: the maps come back as they were saved.
C31_RoundTripOfWrittenLeaf ==
    (psPc = "loaded" /\ ~psSaved.raised) =>
        /\ psLoaded.status = "returned"
        /\ \A n \in INT_KEY_MAPPINGS : psLoaded.config[n] = psSaved.leaf[n]

\* ---------------------------------------------------------------------
\* C32
\* ---------------------------------------------------------------------

C33_IncDecSerialized ==
    /\ \A t, u \in SyThreads : (SyInBody(t) /\ SyInBody(u)) => t = u
    /\ (\A t \in SyThreads : syThread[t].pc = "done") => syCounter = 0

\* ---------------------------------------------------------------------
\* C34
\* ---------------------------------------------------------------------

\* No call of a store method is in progress.
StoreAtRest == \A t \in Threads : stack[t] = <<>>

\* C34: whenever no store operation is in progress, the catalog holds
\* exactly the keys that have a record in the data file.
C34_CatalogMatchesFile ==
    (StoreAtRest /\ catalogAttr # 0) => catLists[catalogAttr] = PersistedKeys

\* ---------------------------------------------------------------------
\* C35
\* ---------------------------------------------------------------------

\* C35: every call of a store method made after initialize() comes to its
\* end, by a return or by an exception: no thread stays inside a call.
C35_StoreCallsEnd ==
    \A t \in Threads : (stack[t] # <<>>) ~> (stack[t] = <<>>)

\* C35 witness: a thread is in read, called by catalog, called by get, each
\* inside `with` on the same lock, and catalog is past the join.
C35_Witness ==
    \E t \in Threads :
        /\ Len(stack[t]) = 3
        /\ stack[t][1].fn = "get" /\ stack[t][2].fn = "catalog" /\ stack[t][3].fn = "read"
        /\ InBody(stack[t][3])
        /\ stack[t][1].lock = stack[t][3].lock
        /\ stack[t][2].lock = stack[t][3].lock
        /\ loaderDone

\* The requests for the config key among the calls in progress.
RsKeyRequests == {i \in DOMAIN rsStack : rsStack[i].first /\ rsStack[i].func = "getTableConfigKey"}

\* C36: resolving a table config, a config key or a table manager always
\* ends: at no time is more than one request for the config key in
\* progress, no more than nine handler calls are nested, and every request
\* that is being resolved is resolved in the end.
C36_ResolutionTerminates ==
    /\ [](Cardinality(RsKeyRequests) <= 1 /\ Len(rsStack) <= 9)
    /\ ((rsPc = "running") ~> (rsPc = "done"))

\* C36 witness: inside a request for the config key, the table manager asked
\* for by the tree interceptor asks for the config with the key "".
C36_Witness ==
    /\ RsKeyRequests # {}
    /\ RsTop.func = "getTableConfig"
    /\ RsTop.kw.key = "empty"
    /\ \E i \in DOMAIN rsStack : rsStack[i].func = "getTableConfigKey" /\ rsStack[i].h = "ti"
                                  /\ rsStack[i].pc = "table"

\* C40: once the web module has resolved the config of a web module key
\* twice or more, the maps of the cached config are those it had after the
\* first resolution, in the same order.
C40_RepeatedResolutionKeepsLayers ==
    \A key \in WebModuleKeys :
        rsSeen[key].times >= 2 => rsMaps[key] = rsSeen[key].first

\* The separator that follows the last cell of window win.
ClosingSeparator(win) == columns[LastCellIndex(win) + 1]

\* C37: after packing, the separator that ends every window other than the
\* last has the position END_OF_WINDOW, or EOW_AFTER_SEL when it follows the
\* selected column, and the end-of-window width.
C37_ClosingSeparatorAtEndOfWindow ==
    packPc = "updated" =>
        \A w \in ClosedWindows :
            /\ EndsWithSeparator(w)
            /\ ClosingSeparator(w).position
                 = (IF ClosingSeparator(w).col = selNum THEN "EOW_AFTER_SEL"
                    ELSE "END_OF_WINDOW")

\* The closing separators that follow the selected column do get their
\* end-of-window position.
C37_AfterSelection ==
    packPc = "updated" =>
        \A w \in ClosedWindows :
            ClosingSeparator(w).col = selNum => ClosingSeparator(w).position = "EOW_AFTER_SEL"

\* passThrough is neither table mode nor a focus mode.
InBrowseMode == mdPassThrough # TABLE_MODE /\ ~ModeBool(mdPassThrough)

C39_EscapeRestoresTableMode ==
    /\ (mdLast.op = "enterFocusMode" /\ mdLast.before = TABLE_MODE)
         => mdPassThrough = FOCUS_MODE_FROM_TABLE_MODE
    /\ (mdLast.op = "disablePassThrough" /\ mdLast.before = FOCUS_MODE_FROM_TABLE_MODE)
         => mdPassThrough = TABLE_MODE

\* C39 (amended): focus mode entered in table mode is recorded as
\* FOCUS_MODE_FROM_TABLE_MODE.  The escape command that finds the document
\* in that state leaves it in table mode when the caret is in a table or the
\* current table is kept without looking at the caret; with no table at the
\* caret it leaves the document in browse mode when there is no current
\* table, and fails, the document still in focus mode, when the position is
\* to be set in the current table.
C39_EscapeRestoresTableModeInTable ==
    /\ (mdLast.op = "enterFocusMode" /\ mdLast.before = TABLE_MODE)
         => mdPassThrough = FOCUS_MODE_FROM_TABLE_MODE
    /\ (mdLast.op = "disablePassThrough" /\ mdLast.before = FOCUS_MODE_FROM_TABLE_MODE)
         => /\ (mdCaret # 0 => mdPassThrough = TABLE_MODE /\ mdCurrentTable # 0)
            /\ (mdCaret = 0 /\ mdLast.table = 0 => mdPassThrough = "False")
            /\ (mdCaret = 0 /\ mdLast.table # 0 =>
                  \/ mdPassThrough = TABLE_MODE /\ ~mdLast.raised
                  \/ mdPassThrough = FOCUS_MODE_FROM_TABLE_MODE /\ mdLast.raised)

\* C39 witness: escape brought the document back to table mode from the
\* focus mode entered from table mode.
C39_Witness ==
    /\ mdLast.op = "disablePassThrough"
    /\ mdLast.before = FOCUS_MODE_FROM_TABLE_MODE
    /\ mdPassThrough = TABLE_MODE
    /\ mdCaret # 0

====
